---- MODULE Spec2Model ----
(***************************************************************************)
(* Verification model of the reference-list pipeline of crossrefXML:       *)
(* src/doiref.py (author-year segmenter, numbered path, output) and        *)
(* src/parsing_helpers.py (line predicates, DOI helpers, loading).  Each   *)
(* part is a specification of its own over the shared variables: SegSpec,  *)
(* DoiSpec, NumSpec and LoadSpec.                                          *)
(*                                                                         *)
(* Representation.  A physical line or a fragment is a sequence of tokens; *)
(* the text it stands for is its tokens joined by single spaces, which is  *)
(* what normalize_line (parsing_helpers.py:208-227) leaves of a line.  The *)
(* Python expression  a.rstrip() + ' ' + b.lstrip()  is therefore  a \o b. *)
(* Every regular expression of the source is rendered as a predicate on    *)
(* token sequences; the token classes below record, token by token, what   *)
(* the regular expression answers on the concrete tokens of the alphabet.  *)
(***************************************************************************)
EXTENDS Integers, Sequences, FiniteSets, TLC

(* ------------------------------ bounds -------------------------------- *)
\* longest buffer drawn freely from LinePool
MaxLines == 3
\* longest "author head followed by continuation lines" buffer
MaxChain == 12
\* most tokens of a fragment handed to the DOI helpers
MaxDoiToks == 2

(* ------------------------- program constants -------------------------- *)
\* int(os.environ.get('DOIREF_MAX_ITER', '10'))
MAX_ITER_DEFAULT == 10
\* int(os.environ.get('DOIREF_JOIN_SHORT_MAX_ITER', '10'))
max_single_token_iter == 10
\* int(os.environ.get('DOIREF_EDITOR_MAX_ITER', '3'))
max_editor_iter == 3
\* split_trailer_fragments(refs, author_start_like_re, min_years=2)
min_years == 2
\* s[max(0, start - 30):start] in _add_doi_org_prefix
LOOKBACK == 30
\* ((?:\s*\S+){1,12}) in extract_doi_ids
MAX_TAIL_TOKENS == 12

\* numbered-style detection: `if bracket_count >= 15`
BRACKET_MIN == 15

\* numbered-style detection: `elif paren_count >= 15`
PAREN_MIN == 15

\* bare_threshold = 30 if args.until_eof else 10
BARE_MIN == 10

BARE_MIN_EOF == 30

\* trigger_threshold = 10, and 30 for the bare style with --until-eof
TRIGGER_MIN == 10

TRIGGER_MIN_EOF == 30

\* load_and_preprocess(..., pymupdf_context_chars=2000)
PYMUPDF_CONTEXT_CHARS == 2000

\* numbered lines above a detection threshold
MaxExtra == 5

\* default of DOIREF_HYPHEN_MAX_ITER
HYPHEN_MAX_ITER_DEFAULT == 8

\* calls of the debug store each thread makes
MaxCalls == 2

\* lines of the file given to fix_dashed_refs.py
MaxDashLines == 3

\* fragments in a buffer handed to the trailer split
MaxSplitRefs == 2

\* physical lines given to hyphen_join_fixed_point
MaxHyphLines == 3

\* lines of the full text handed to load_and_preprocess
MaxTextLines == 4

\* non-blank characters of a reference line of the full text
RefChars == 1000

VARIABLES
    pc,           \* position of the script in its sequence of passes
    input,        \* the buffer as returned by load_and_preprocess
    lines,        \* doiref.py `lines`: the buffer the early passes rewrite
    MAX_ITER,     \* doiref.py `MAX_ITER`, read from DOIREF_MAX_ITER
    prev,         \* doiref.py `prev` / `prev2`: input of the next loop pass
    iteration,    \* doiref.py `iteration`: passes of the author-head loop
    iter_e,       \* doiref.py `iter_e`: rounds of the editor-token loop
    iter2,        \* doiref.py `iter2`: passes of the append-nonyear loop
    joinExit,     \* why the author-head loop stopped: "fixed" or "cap"
    final_refs,   \* doiref.py `final_refs`
    final_refs2,  \* doiref.py `final_refs2`
    written,      \* content of the output file, one fragment per line
    fragment,     \* the reference handed to the DOI helpers
    ids,          \* extract_doi_ids(fragment)
    moved,        \* move_doi_to_end(fragment)
    moved2,       \* move_doi_to_end(moved), the second application of doiref.py
    count_lines,  \* doiref.py `count_lines` and `lines` of the numbered path
    STRIP_NUMBERS,        \* --strip-numbers
    args_until_eof,       \* args.until_eof
    no_numbered_fallback, \* args.no_numbered_fallback
    reextract,    \* args.extractor == 'pdfminer' and not use_txt_file
    local_max_iter,       \* doiref.py `local_max_iter`
    bracket_count, paren_count, bare_count,
    numbered_style,       \* "bracket", "paren", "bare", or "none" for None
    num_count,
    prev_num,     \* input of the next numbered pass
    iter_num,     \* passes of the numbered loop
    final_numbered,
    num_written,  \* content of the output file of the numbered path
    out_lines,    \* the lines handed to doiref_nonapa.py by the fallback
    full_text,    \* what get_full_text returned
    use_txt_file, \* TXT input; require_heading = not use_txt_file
    until_eof,    \* load_and_preprocess `until_eof`
    extractor,    \* "pdfminer" or "pymupdf"
    raised,       \* extract_references_section raised ValueError
    references_text,
    norm_lines,   \* load_and_preprocess `lines`
    args_extractor, \* doiref.py `args.extractor`
    txt_mode,     \* doiref.py `use_txt_file` of the whole run
    backend_ok,   \* which of "txt", "pdfminer", "pymupdf" can produce text
    document,     \* what the document is like (empty, numbered, ...)
    fault,        \* the pass that raises in this run, "none" if none does
    debug_dir,    \* the debug directory as earlier runs left it
    get_calls,    \* the calls of get_full_text made so far
    run_lines,    \* doiref.py `lines`: text it comes from, passes applied
    artifact,     \* the file `output_filename`
    stripped,     \* the file references_raw_no_numbers.txt
    nonapa_lines, \* doiref_nonapa.py `lines` in the fallback subprocess
    nonapa_artifact, \* the file references_nonapa.txt
    pass_idx,     \* passes of the author-year path that are done
    script,       \* the script that is run: doiref.py or doiref_nonapa.py
    hyph_input,   \* hyphen_join_fixed_point `input_lines`
    hyph_max_iter, \* hyphen_join_fixed_point `max_iter`
    hyph_prev,    \* hyphen_join_fixed_point `prev`
    hyph_iter_n,  \* hyphen_join_fixed_point `iter_n`
    hyph_returned, \* the list hyphen_join_fixed_point returned
    hyph_exit,    \* why it returned: "empty", "unchanged" or "cap"
    dbg_enabled,  \* debug_utils._DEBUG_ENABLED
    lock_holder,  \* the thread that holds debug_utils._lock, or "free"
    state_loaded, \* _mapping and _counter are not None
    dbg_mapping,  \* debug_utils._mapping: base name -> canonical name
    dbg_counter,  \* debug_utils._counter
    state_files,  \* what .map.json and .counter hold
    dir_files,    \* the canonical files in the debug directory
    thread_pc,    \* where each thread is in its call
    thread_op,    \* the call each thread is in
    thread_local, \* each thread's local `_counter` read and `canonical`
    thread_calls, \* calls each thread has made
    handed_out,   \* (base, canonical) pairs returned since the last reset
    allocations,  \* names allocated since the last reset
    unlocked_access, \* _mapping or _counter was touched without the lock
    dash_input,   \* fix_dashed_refs.py process_references `lines`
    dash_result,  \* process_references `result`
    last_author_prefix, \* process_references `last_author_prefix`
    split_family, \* the script that calls split_trailer_fragments
    split_refs,   \* split_trailer_fragments `refs`
    split_out,    \* split_trailer_fragments `out`
    ta_lines,     \* doiref_nonapa.py `lines` handed to the Type-A joiner
    MAX_APPEND_STEPS, \* doiref_nonapa.py `MAX_APPEND_STEPS`, --max-append
    ta_i,         \* the joiner's `i`, counted from 1
    current,      \* the joiner's `current`: the lines of the candidate
    steps,        \* the joiner's `steps`
    references,   \* the joiner's `references`, each a sequence of lines
    extent_val,   \* doireg.py `extent_val`, -1 for None
    min_page,     \* doireg.py `min_page`, -1 while no option is handed over
    max_page      \* doireg.py `max_page`, -1 while no option is handed over

segVars == <<input, lines, MAX_ITER, prev, iteration, iter_e, iter2, joinExit,
             final_refs, final_refs2, written>>

doiVars == <<fragment, ids, moved, moved2>>

numVars == <<count_lines, STRIP_NUMBERS, args_until_eof, no_numbered_fallback,
             reextract, local_max_iter, bracket_count, paren_count, bare_count,
             numbered_style, num_count, prev_num, iter_num, final_numbered,
             num_written, out_lines>>

loadVars == <<full_text, use_txt_file, until_eof, extractor, raised,
              references_text, norm_lines>>

runVars == <<script, args_extractor, txt_mode, backend_ok, document, fault, debug_dir,
             get_calls, run_lines, artifact, stripped, nonapa_lines,
             nonapa_artifact, pass_idx>>

\* the parts of the program modelled in the second half of the module
hyphVars == <<hyph_input, hyph_max_iter, hyph_prev, hyph_iter_n,
              hyph_returned, hyph_exit>>

dbgVars == <<dbg_enabled, lock_holder, state_loaded, dbg_mapping, dbg_counter,
             state_files, dir_files, thread_pc, thread_op, thread_local,
             thread_calls, handed_out, allocations, unlocked_access>>

dashVars == <<dash_input, dash_result, last_author_prefix>>

splitVars == <<split_family, split_refs, split_out>>

typeAVars == <<ta_lines, MAX_APPEND_STEPS, ta_i, current, steps, references>>

pageVars == <<extent_val, min_page, max_page>>

restVars == <<runVars, hyphVars, dbgVars, dashVars, splitVars, typeAVars,
              pageVars>>

\* the parts of the program modelled in the first half of the module
coreVars == <<segVars, doiVars, numVars, loadVars>>

\* what the run of doiref.py leaves alone
notRunVars == <<coreVars, hyphVars, dbgVars, dashVars, splitVars,
                 typeAVars, pageVars>>

\* what hyphen_join_fixed_point leaves alone
notHyphVars == <<coreVars, runVars, dbgVars, dashVars, splitVars,
                 typeAVars, pageVars>>

\* what the debug store leaves alone
notDbgVars == <<coreVars, runVars, hyphVars, dashVars, splitVars,
                 typeAVars, pageVars>>

\* what fix_dashed_refs.py leaves alone
notDashVars == <<coreVars, runVars, hyphVars, dbgVars, splitVars,
                 typeAVars, pageVars>>

\* what the trailer split leaves alone
notSplitVars == <<coreVars, runVars, hyphVars, dbgVars, dashVars,
                 typeAVars, pageVars>>

\* what the Type-A joiner leaves alone
notTypeAVars == <<coreVars, runVars, hyphVars, dbgVars, dashVars, splitVars,
                  pageVars>>

\* what the page-range hints of doireg.py leave alone
notPageVars == <<coreVars, runVars, hyphVars, dbgVars, dashVars, splitVars,
                 typeAVars>>

vars == <<pc, segVars, doiVars, numVars, loadVars, restVars>>

(* ------------------------- sequence helpers --------------------------- *)
Last(s) == s[Len(s)]

\* out[-1] = x
SetLast(out, x) == [out EXCEPT ![Len(out)] = x]

\* number of positions of l holding a token of S
CountTok(l, S) == Cardinality({i \in 1..Len(l) : l[i] \in S})

HasTok(l, S) == \E i \in 1..Len(l) : l[i] \in S

(* --------------------------- token alphabet --------------------------- *)
Token ==
    {"Smith,", "Smith", "J.", "J.,", "&", "(2020)", "Title", "of", "paper.",
     "SOU", "2020:11", "SOU:2020:11", "(Eds.)", "thesis].", "2020.",
     "and"}

\* tokens on which YEAR_PAREN finds a parenthesized bounded year
ParenYearTok == {"(2020)"}

\* tokens beginning with '('
ParenStartTok == {"(2020)", "(Eds.)"}

\* tokens at which YEAR_BARE_START matches (a bare bounded year)
BareYearStartTok == {"2020:11"}

\* tokens that alone satisfy a government-marker regex ("SOU:2020:11")
GovSingleTok == {"SOU:2020:11"}

\* marker word and serial of the two-token form "SOU 2020:11"
GovHeadTok == {"SOU"}

GovSerialTok == {"2020:11"}

\* tokens containing a decimal digit
DigitTok == {"(2020)", "2020:11", "SOU:2020:11", "2020."}

\* tokens containing (and ending with) exactly one comma
CommaTok == {"Smith,", "J.,"}

\* tokens the surname part of the author regex accepts, with the separator
SurnameTok == {"Smith,", "Smith", "J.", "J.,", "Title", "SOU"}

\* tokens that begin with an initial followed by a permitted delimiter
InitialTok == {"J.", "J.,"}

\* tokens after which line_ends_with_comma_or_initial answers True
CommaOrInitialEndTok == {"Smith,", "J.", "J.,"}

\* tokens ending with a literal ampersand
AmpEndTok == {"&"}

\* tokens beginning with a literal ampersand
AmpStartTok == {"&"}

\* parentheticals whose content matches editor_token_re
EditorTok == {"(Eds.)"}

\* tokens that are a parenthetical  ( ... )
ParenTok == {"(2020)", "(Eds.)"}

\* tokens made only of the punctuation doiref.py:1022 tolerates
PunctOnlyTok == {}

\* tokens ending with "]."
BracketDotTok == {"thesis]."}

\* tokens that are exactly one initial ("J." but not "J.,")
InitialOnlyTok == {"J."}

(* --------------------------- line predicates -------------------------- *)
\* prop_start_re / sou_start_re / sfs_start_re / ds_start_re on a line
starts_with_prop_or_sou(l) ==
    /\ Len(l) >= 1
    /\ \/ l[1] \in GovSingleTok
       \/ Len(l) >= 2 /\ l[1] \in GovHeadTok /\ l[2] \in GovSerialTok

\* YEAR_PAREN.search(l)
YEAR_PAREN(l) == HasTok(l, ParenYearTok)

\* doiref_nonapa.py 508-535: the line ends with a year, parenthesized or
\* bare
line_ends_with_year(l) == Len(l) >= 1 /\ Last(l) \in {"(2020)", "2020."}

\* YEAR_PAREN_END.search(l): the line ends with a parenthesized year
YEAR_PAREN_END(l) == Len(l) >= 1 /\ Last(l) \in ParenYearTok

\* stripped.startswith('(') or YEAR_BARE_START.match(stripped)
starts_with_paren_or_year(l) ==
    Len(l) >= 1 /\ (l[1] \in ParenStartTok \/ l[1] \in BareYearStartTok)

\* author_pattern.match / author_start_like_active.match /
\* author_start_like_multi.match: one surname token, a separator, an initial
\* (on single-spaced text the three patterns accept the same lines)
author_start_like(l) ==
    Len(l) >= 2 /\ l[1] \in SurnameTok /\ l[2] \in InitialTok

\* re.search(r"\d", l)
has_digit(l) == HasTok(l, DigitTok)

\* starts_with_initials_parenthesized_year(l) or
\* starts_with_initials_then_parenthesized_year_allowing_authors(l)
starts_with_initials_year(l) ==
    /\ Len(l) >= 2
    /\ l[1] \in InitialOnlyTok
    /\ \E i \in 2..Len(l) : l[i] \in ParenYearTok

line_ends_with_comma_or_initial(l) ==
    Len(l) >= 1 /\ Last(l) \in CommaOrInitialEndTok

\* only a literal trailing '&' counts
line_ends_with_conjunction(l) == Len(l) >= 1 /\ Last(l) \in AmpEndTok

\* the matched author prefix never holds a digit on this alphabet, and a
\* matched prefix always holds an initial, so what is left of the helper is
\* the author match and the parenthesized-year rejection
is_author_line_editor(l) == author_start_like(l) /\ ~YEAR_PAREN(l)

\* index of the first / last parenthetical of l, 0 when there is none
FirstParen(l) ==
    IF HasTok(l, ParenTok)
    THEN CHOOSE i \in 1..Len(l) :
            l[i] \in ParenTok /\ \A j \in 1..(i-1) : l[j] \notin ParenTok
    ELSE 0

LastParen(l) ==
    IF HasTok(l, ParenTok)
    THEN CHOOSE i \in 1..Len(l) :
            l[i] \in ParenTok /\ \A j \in (i+1)..Len(l) : l[j] \notin ParenTok
    ELSE 0

\* the last parenthetical of prev is an editor token and only punctuation
\* follows it
prev_has_editor(l) ==
    /\ LastParen(l) > 0
    /\ l[LastParen(l)] \in EditorTok
    /\ \A j \in (LastParen(l)+1)..Len(l) : l[j] \in PunctOnlyTok

(* ------------------------- the early merge passes --------------------- *)
\* doiref.py 629-654: a line starting with '(' or a bare year goes to the
\* previous entry
RECURSIVE merged_start_paren(_, _, _)
merged_start_paren(ls, i, out) ==
    IF i > Len(ls) THEN out
    ELSE IF starts_with_paren_or_year(ls[i]) /\ Len(out) > 0
         THEN merged_start_paren(ls, i + 1, SetLast(out, Last(out) \o ls[i]))
         ELSE merged_start_paren(ls, i + 1, Append(out, ls[i]))

\* doiref.py 670-694: a line ending with a parenthesized year takes the next
\* line unless that line starts with a government marker; the scan resumes
\* after the consumed line.  (The buffer holds no blank line, so the next
\* non-blank line is the next line.)
RECURSIVE year_end_pre_append(_, _, _)
year_end_pre_append(ls, i, out) ==
    IF i > Len(ls) THEN out
    ELSE IF YEAR_PAREN_END(ls[i]) /\ i + 1 <= Len(ls)
         THEN IF starts_with_prop_or_sou(ls[i + 1])
              THEN year_end_pre_append(ls, i + 1, Append(out, ls[i]))
              ELSE year_end_pre_append(ls, i + 2,
                                       Append(out, ls[i] \o ls[i + 1]))
         ELSE year_end_pre_append(ls, i + 1, Append(out, ls[i]))

\* a single token that does not start with a government marker
is_single_token_not_marker(ln) == Len(ln) = 1 /\ ~starts_with_prop_or_sou(ln)

\* doiref.py 725: stripped_ln and not re.search(r'\s', stripped_ln); the
\* line is one token, whatever its characters
is_single_token(ln) == Len(ln) = 1

\* doiref.py 719-729: one sweep of the single-token join
RECURSIVE single_token_sweep(_, _, _)
single_token_sweep(ls, idx, new_join) ==
    IF idx > Len(ls) THEN new_join
    ELSE IF idx > 1 /\ is_single_token(ls[idx])
         THEN single_token_sweep(ls, idx + 1,
                                 SetLast(new_join, Last(new_join) \o ls[idx]))
         ELSE single_token_sweep(ls, idx + 1, Append(new_join, ls[idx]))

\* `changed` of the sweep: some line after the first is a single token
single_token_changed(ls) == \E idx \in 2..Len(ls) : is_single_token(ls[idx])

\* doiref.py 713-740: sweep until nothing changed or the cap is reached
RECURSIVE single_token_join(_, _)
single_token_join(prev_join, iter_j) ==
    IF ~single_token_changed(prev_join) \/ iter_j >= max_single_token_iter
    THEN single_token_sweep(prev_join, 1, <<>>)
    ELSE single_token_join(single_token_sweep(prev_join, 1, <<>>), iter_j + 1)

\* doiref.py 759-772
RECURSIVE merged_initials(_, _, _)
merged_initials(ls, idx, out) ==
    IF idx > Len(ls) THEN out
    ELSE IF /\ idx > 1
            /\ starts_with_initials_year(ls[idx])
            /\ Len(out) > 0
            /\ line_ends_with_comma_or_initial(Last(out))
         THEN merged_initials(ls, idx + 1, SetLast(out, Last(out) \o ls[idx]))
         ELSE merged_initials(ls, idx + 1, Append(out, ls[idx]))

\* doiref.py 789-811: a line ending with '&' takes the next line unless that
\* line starts with a government marker; the scan resumes after the consumed
\* line, so the merged entry is not examined again
RECURSIVE merged_amp(_, _, _)
merged_amp(ls, i, out) ==
    IF i > Len(ls) THEN out
    ELSE IF line_ends_with_conjunction(ls[i]) /\ i + 1 <= Len(ls)
         THEN IF starts_with_prop_or_sou(ls[i + 1])
              THEN merged_amp(ls, i + 1, Append(out, ls[i]))
              ELSE merged_amp(ls, i + 2, Append(out, ls[i] \o ls[i + 1]))
         ELSE merged_amp(ls, i + 1, Append(out, ls[i]))

\* doiref.py 937-952
RECURSIVE merged_amp_start(_, _, _)
merged_amp_start(ls, i, out) ==
    IF i > Len(ls) THEN out
    ELSE IF /\ ls[i][1] \in AmpStartTok
            /\ Len(out) > 0
            /\ is_author_line_editor(Last(out))
         THEN merged_amp_start(ls, i + 1, SetLast(out, Last(out) \o ls[i]))
         ELSE merged_amp_start(ls, i + 1, Append(out, ls[i]))

(* --------------------------- the editor loop -------------------------- *)
\* doiref.py 978-993: a later line without a parenthesized year whose first
\* parenthetical is an editor token goes to the previous entry, unless it
\* starts with a government marker
RECURSIVE merged_with_editors(_, _, _)
merged_with_editors(ls, idx, out) ==
    IF idx > Len(ls) THEN out
    ELSE IF /\ idx > 1
            /\ ~YEAR_PAREN(ls[idx])
            /\ FirstParen(ls[idx]) > 0
            /\ ls[idx][FirstParen(ls[idx])] \in EditorTok
            /\ ~starts_with_prop_or_sou(ls[idx])
         THEN merged_with_editors(ls, idx + 1,
                                  SetLast(out, Last(out) \o ls[idx]))
         ELSE merged_with_editors(ls, idx + 1, Append(out, ls[idx]))

\* doiref.py 996-1050: an entry ending with an editor token takes the next
\* entry unless that one holds a parenthesized year, starts with a government
\* marker or matches the author pattern
RECURSIVE out_after_prev_editor(_, _, _)
out_after_prev_editor(ls, i, out) ==
    IF i > Len(ls) THEN out
    ELSE IF /\ i > 1
            /\ ~YEAR_PAREN(ls[i])
            /\ prev_has_editor(Last(out))
            /\ ~starts_with_prop_or_sou(ls[i])
            /\ ~author_start_like(ls[i])
         THEN out_after_prev_editor(ls, i + 1,
                                    SetLast(out, Last(out) \o ls[i]))
         ELSE out_after_prev_editor(ls, i + 1, Append(out, ls[i]))

\* doiref.py 965-973
has_unresolved_editor_token(ls) ==
    \E k \in 1..Len(ls) : ~YEAR_PAREN(ls[k]) /\ HasTok(ls[k], EditorTok)

\* doiref.py 977-1053: one round of the editor loop, the first step and
\* then the second
editor_round(ls) ==
    out_after_prev_editor(merged_with_editors(ls, 1, <<>>), 1, <<>>)

\* the loop left only when the cap is reached
editor_exit_on_cap_only(after, round_no) == round_no >= max_editor_iter

\* doiref.py 1058: the test that ends the loop after a round
editor_exit(after, round_no) ==
    ~has_unresolved_editor_token(after) \/ round_no >= max_editor_iter

\* doiref.py 975-1059: both steps, repeated while an editor token is left
\* over and the cap allows
RECURSIVE editor_loop(_, _)
editor_loop(ls, round_no) ==
    LET after == editor_round(ls)
    IN  IF editor_exit(after, round_no)
        THEN after
        ELSE editor_loop(after, round_no + 1)

(* ------------------------ the author-head join ------------------------ *)
\* the test of doiref.py 1116-1124 on a line without a parenthesized year
author_head(ln) ==
    /\ \/ author_start_like(ln)
       \/ /\ Last(ln) \in CommaTok
          /\ CountTok(ln, CommaTok) >= 2
          /\ ~YEAR_PAREN(ln)
          /\ ~has_digit(ln)
    /\ Len(ln) - 1 >= 2
    /\ ~has_digit(ln)

\* the author head alone: the line that follows it is consumed and lost
head_without_next(ln, next_line) == ln

\* doiref.py 1128: merged = ln + ' ' + input_lines[k].strip()
head_with_next(ln, next_line) == ln \o next_line

\* doiref.py 1087-1136: an author head takes the next line, whatever that
\* line is; the scan resumes after the consumed line
RECURSIVE one_pass_apply_from(_, _, _)
one_pass_apply_from(input_lines, i, out) ==
    IF i > Len(input_lines) THEN out
    ELSE LET ln == input_lines[i]
         IN  IF YEAR_PAREN(ln)
             THEN one_pass_apply_from(input_lines, i + 1, Append(out, ln))
             ELSE IF author_head(ln) /\ i + 1 <= Len(input_lines)
                  THEN one_pass_apply_from(input_lines, i + 2,
                           Append(out, head_with_next(ln, input_lines[i + 1])))
                  ELSE one_pass_apply_from(input_lines, i + 1, Append(out, ln))

one_pass_apply(input_lines) == one_pass_apply_from(input_lines, 1, <<>>)

\* loop_exit with the cap test taken for convergence
loop_exit_cap_as_fixed(new, old, it, cap) ==
    IF new = old \/ it >= cap THEN "fixed" ELSE "continue"

\* loop_exit with the cap test one pass late
loop_exit_late(new, old, it, cap) ==
    IF new = old THEN "fixed"
    ELSE IF it > cap THEN "cap"
    ELSE "continue"

\* loop_exit with the cap test one pass early
loop_exit_one_early(new, old, it, cap) ==
    IF new = old THEN "fixed"
    ELSE IF it >= cap - 1 THEN "cap"
    ELSE "continue"

\* doiref.py 1152-1166: what the loop does with the result `new` of pass
\* number `it`: stop on a fixed point, stop on the cap, or go on
loop_exit(new, old, it, cap) ==
    IF new = old THEN "fixed"
    ELSE IF it >= cap THEN "cap"
    ELSE "continue"

\* doiref.py 1144-1166 as a function: the buffer, the number of passes and
\* the reason the loop returned, starting with pass number `it` on `old`
RECURSIVE join_loop(_, _, _)
join_loop(old, it, cap) ==
    LET new == one_pass_apply(old)
        why == loop_exit(new, old, it, cap)
    IN  IF why = "continue"
        THEN join_loop(new, it + 1, cap)
        ELSE [refs |-> new, iteration |-> it, exit |-> why]

(* ------------------------- the append-nonyear loop -------------------- *)
\* the test of the pass with an exception for lines that start like an
\* author
goes_to_previous_unless_author(ln) ==
    /\ ~YEAR_PAREN(ln)
    /\ ~starts_with_prop_or_sou(ln)
    /\ ~author_start_like(ln)

\* doiref.py 1191-1200: the line has no parenthesized year and does not
\* start with a government marker
goes_to_previous(ln) == ~YEAR_PAREN(ln) /\ ~starts_with_prop_or_sou(ln)

\* doiref.py 1182-1204: a later line without a parenthesized year goes to
\* the previous entry unless it starts with a government marker
RECURSIVE append_nonyear_from(_, _, _)
append_nonyear_from(input_lines, i, out) ==
    IF i > Len(input_lines) THEN out
    ELSE IF goes_to_previous(input_lines[i])
         THEN append_nonyear_from(input_lines, i + 1,
                                  SetLast(out, Last(out) \o input_lines[i]))
         ELSE append_nonyear_from(input_lines, i + 1,
                                  Append(out, input_lines[i]))

append_nonyear_pass(input_lines) ==
    IF Len(input_lines) = 0 THEN <<>>
    ELSE append_nonyear_from(input_lines, 2, <<input_lines[1]>>)

(* --------------------------- the trailer split ------------------------ *)
\* position of the last token ending with "]." that has text after it, or 0
split_point(ref) ==
    IF \E k \in 1..(Len(ref) - 1) : ref[k] \in BracketDotTok
    THEN CHOOSE k \in 1..(Len(ref) - 1) :
            /\ ref[k] \in BracketDotTok
            /\ \A j \in (k + 1)..(Len(ref) - 1) : ref[j] \notin BracketDotTok
    ELSE 0

\* the year count of the fragment never prevents a split
enough_years_always(ref, n) == TRUE

\* parsing_helpers.py 1444-1451: not (year_count < (min_years or 0))
enough_years(ref, n) == CountTok(ref, ParenYearTok) >= n

\* parsing_helpers.py 1441-1467 on one fragment: split after the last "]."
\* when the fragment holds at least n parenthesized years and the right part
\* starts like an author
split_trailer_fragment(ref, n) ==
    LET k == split_point(ref)
    IN  IF /\ enough_years(ref, n)
           /\ k > 0
           /\ author_start_like(SubSeq(ref, k + 1, Len(ref)))
        THEN <<SubSeq(ref, 1, k), SubSeq(ref, k + 1, Len(ref))>>
        ELSE <<ref>>

\* doiref.py 1247-1259
RECURSIVE post_split(_, _, _)
post_split(refs, i, out) ==
    IF i > Len(refs) THEN out
    ELSE post_split(refs, i + 1, out \o split_trailer_fragment(refs[i], min_years))

(* ------------------------------ DOI helpers --------------------------- *)
\* DOI helpers of parsing_helpers.py.
\*
\* A fragment is a sequence of atoms; the atom " " is one blank and the other
\* atoms are maximal pieces the regular expressions of the module never cut:
\* "https://", "doi.org/", "doi:", "10.", "/", "-", ".", the registrants
\* "12", "1234", "2020" and the words "ab", "cd", "See".  Every regular
\* expression is rendered as a scan over the atoms of the fragment.

\* atoms matched by \d{4,9} (parsing_helpers.py DOI_ID_RE)
RegistrantTok4 == {"1234", "2020"}

\* atoms matched by [0-9]{2,9} (normalize_doi_in_fragment, validation regex)
RegistrantTok2 == {"12", "1234", "2020"}

\* atoms whose last character is a word character (for \b)
WordEndAtom == {"12", "1234", "2020", "ab", "cd", "See"}

\* atoms holding a digit
DigitAtom == {"12", "1234", "2020", "10."}

\* atoms matching ^[A-Z][A-Za-z\-']+$
UpperWordAtom == {"See"}

\* atoms ending with one of the split characters '.', '-', '_'
SplitEndAtom == {".", "-", "10."}

\* atoms removed by rstrip('.,;()[]')
PunctStripAtom == {"."}

\* atoms removed by ^[\s\.:;,\-\(\[\)\]]+
LeadPunctAtom == {".", "-", " "}

\* number of characters of an atom
AtomLen(a) ==
    CASE a \in {" ", "/", "-", "."} -> 1
      [] a \in {"12", "ab", "cd"} -> 2
      [] a \in {"10.", "See"} -> 3
      [] a \in {"doi:", "1234", "2020"} -> 4
      [] a \in {"https://", "doi.org/"} -> 8
      [] OTHER -> 5

Min(S) == CHOOSE x \in S : \A y \in S : x <= y

Max(S) == CHOOSE x \in S : \A y \in S : x >= y

Range(s) == {s[i] : i \in 1..Len(s)}

RECURSIVE Flat(_)
Flat(ss) == IF ss = <<>> THEN <<>> ELSE Head(ss) \o Flat(Tail(ss))

\* the elements of s at the positions of K, in order
KeepAt(s, K) ==
    LET kept == SelectSeq([i \in 1..Len(s) |-> <<i, s[i]>>], LAMBDA pr : pr[1] \in K)
    IN  [j \in 1..Len(kept) |-> kept[j][2]]

\* s[a:b] of the code (half-open, positions counted from 1)
Slice(s, a, b) == SubSeq(s, a, b - 1)

RStrip(x, S) ==
    LET K == {k \in 1..Len(x) : x[k] \notin S}
    IN  IF K = {} THEN <<>> ELSE SubSeq(x, 1, Max(K))

LStrip(x, S) ==
    LET K == {k \in 1..Len(x) : x[k] \notin S}
    IN  IF K = {} THEN <<>> ELSE SubSeq(x, Min(K), Len(x))

\* str.strip()
strip(s) == LStrip(RStrip(s, {" "}), {" "})

\* re.sub(r'\s+', ' ', s)
collapse_ws(s) ==
    KeepAt(s, {i \in 1..Len(s) : ~(s[i] = " " /\ i > 1 /\ s[i - 1] = " ")})

\* re.sub(r'\s+([\.,;:])', r'\1', s)
space_before_punct(s) ==
    KeepAt(s, {i \in 1..Len(s) :
        ~(s[i] = " " /\ \E j \in i + 1..Len(s) :
              s[j] = "." /\ \A k \in i..j - 1 : s[k] = " ")})

\* \b in front of position p
boundary(s, p) == p = 1 \/ s[p - 1] \notin WordEndAtom

\* end of the run of non-blank atoms that starts at p
run_end(s, p) == Min({e \in p..Len(s) + 1 : e = Len(s) + 1 \/ s[e] = " "})

\* first position from p on that holds no blank
skip_sp(s, p) == Min({q \in p..Len(s) + 1 : q = Len(s) + 1 \/ s[q] # " "})

\* .rstrip('.,;()[]')
rstrip_punct(x) == RStrip(x, PunctStripAtom)

\* .endswith(('.', '-', '_'))
ends_split(x) == Len(x) > 0 /\ x[Len(x)] \in SplitEndAtom

\* https?://(?:dx\.)?doi\.org/ at position p
is_http(s, p) == p + 1 <= Len(s) /\ s[p] = "https://" /\ s[p + 1] = "doi.org/"

\* 10\.[0-9]{2,9} at position p
is_ten(s, p) == p + 1 <= Len(s) /\ s[p] = "10." /\ s[p + 1] \in RegistrantTok2

\* end of a run of 'doi:' atoms separated by blanks
RECURSIVE colon_run(_, _)
colon_run(s, r) ==
    IF r <= Len(s) /\ s[r] = "doi:" THEN colon_run(s, skip_sp(s, r + 1)) ELSE r

\* move_doi_to_end, first substitution: (?:doi:\s*){2,} -> doi:
RECURSIVE doi_colon_repeat(_, _)
doi_colon_repeat(s, p) ==
    LET P == {q \in p..Len(s) :
                 /\ s[q] = "doi:"
                 /\ skip_sp(s, q + 1) <= Len(s) /\ s[skip_sp(s, q + 1)] = "doi:"}
    IN  IF P = {} THEN Slice(s, p, Len(s) + 1)
        ELSE Slice(s, p, Min(P)) \o <<"doi:">>
             \o doi_colon_repeat(s, colon_run(s, Min(P)))

\* move_doi_to_end, second substitution: \bdoi:\s+ -> doi:
RECURSIVE doi_colon_space(_, _)
doi_colon_space(s, p) ==
    LET P == {q \in p..Len(s) - 1 :
                 s[q] = "doi:" /\ boundary(s, q) /\ s[q + 1] = " "}
    IN  IF P = {} THEN Slice(s, p, Len(s) + 1)
        ELSE Slice(s, p, Min(P)) \o <<"doi:">>
             \o doi_colon_space(s, skip_sp(s, Min(P) + 1))

collapse_doi_colon(ref) == doi_colon_space(doi_colon_repeat(ref, 1), 1)

\* normalize_doi_in_fragment, _c1: the blanks between the URL prefix and a
\* following 10.<digits> are dropped
RECURSIVE c1_url_prefix(_, _)
c1_url_prefix(s, p) ==
    LET P == {q \in p..Len(s) : is_http(s, q) /\ is_ten(s, skip_sp(s, q + 2))}
    IN  IF P = {} THEN Slice(s, p, Len(s) + 1)
        ELSE Slice(s, p, Min(P)) \o <<"https://", "doi.org/">>
             \o c1_url_prefix(s, skip_sp(s, Min(P) + 2))

RECURSIVE CharLen(_, _, _)
CharLen(s, a, b) == IF a > b THEN 0 ELSE AtomLen(s[a]) + CharLen(s, a + 1, b)

\* _add_doi_org_prefix: one of 'doi.org', 'doi:', 'https://' lies whole in the
\* 30 characters before position p
marker_before(s, p) ==
    \E q \in Max({1, p - LOOKBACK})..p - 1 :
        /\ s[q] \in {"https://", "doi.org/", "doi:"}
        /\ CharLen(s, q, p - 1) <= LOOKBACK

\* normalize_doi_in_fragment, last substitution with _add_doi_org_prefix
RECURSIVE add_doi_org_prefix(_, _)
add_doi_org_prefix(s, p) ==
    LET P == {q \in p..Len(s) : is_ten(s, q) /\ boundary(s, q)}
    IN  IF P = {} THEN Slice(s, p, Len(s) + 1)
        ELSE Slice(s, p, Min(P))
             \o (IF marker_before(s, Min(P)) THEN <<>> ELSE <<"doi.org/">>)
             \o Slice(s, Min(P), run_end(s, Min(P)))
             \o add_doi_org_prefix(s, run_end(s, Min(P)))

\* the '1 0.' repairs, _c2, _c3, the '{_}' rewrite and the blank-after-slash
\* collapse find nothing to rewrite in fragments over these atoms
normalize_doi_in_fragment(ref) == add_doi_org_prefix(c1_url_prefix(ref, 1), 1)

\* DOI_URL_SPLIT_RE can match at position p
split_start(s, p) ==
    IF is_http(s, p) THEN p + 2 <= Len(s) /\ s[p + 2] # " "
    ELSE s[p] \in {"doi.org/", "doi:"} /\ p + 1 <= Len(s) /\ s[p + 1] # " "

\* split_urls_and_dois: the fragments end after each URL / doi: token
RECURSIVE split_urls_and_dois(_)
split_urls_and_dois(ref) ==
    LET P == {p \in 1..Len(ref) : split_start(ref, p)}
    IN  IF P = {} THEN <<ref>>
        ELSE LET start == Min(P)
                 end == run_end(ref, start)
                 before == strip(Slice(ref, 1, start))
                 url == Slice(ref, start, end)
                 after == strip(Slice(ref, end, Len(ref) + 1))
                 first == IF before # <<>> THEN before \o <<" ">> \o url ELSE url
             IN  IF after # <<>> THEN <<first>> \o split_urls_and_dois(after)
                 ELSE <<first>>

\* conservative_doi_reattach: curr starts like a DOI continuation
curr_starts_doi(c) ==
    LET K == {k \in 1..Len(c) : c[k] \notin {" ", "/", "-", "."}}
    IN  /\ K # {}
        /\ LET p == Min(K)
           IN  \/ c[p] = "doi.org/"
               \/ c[p] = "10." /\ p + 1 <= Len(c) /\ c[p + 1] \in RegistrantTok2

\* conservative_doi_reattach: prev ends inside a DOI prefix
prev_looks_incomplete(prv) ==
    LET ps == strip(prv)
    IN  ps # <<>> /\ ps[Len(ps)] \in {"doi.org/", "doi:", "https://", "/"}

RECURSIVE conservative_doi_reattach_from(_, _, _)
conservative_doi_reattach_from(frags, i, out) ==
    IF i > Len(frags) THEN out
    ELSE IF prev_looks_incomplete(Last(out)) /\ curr_starts_doi(frags[i])
         THEN conservative_doi_reattach_from(frags, i + 1,
                  SetLast(out, strip(Last(out)) \o LStrip(frags[i], LeadPunctAtom)))
         ELSE conservative_doi_reattach_from(frags, i + 1, Append(out, frags[i]))

conservative_doi_reattach(frags) ==
    IF frags = <<>> THEN frags
    ELSE conservative_doi_reattach_from(frags, 2, <<frags[1]>>)

\* conservative_doi_reattach_aggressive: the first token of the cleaned curr
\* may continue the DOI of prev
aggressive_token_ok(token) ==
    LET n == Len(token)
        has_dig == \E i \in 1..n : token[i] \in DigitAtom
        internal_dot ==
            \/ \E i \in 1..n - 1 : token[i] \in {"10.", "."}
                                   /\ token[i + 1] \notin {"/", "-", "."}
            \/ \E i \in 1..n : token[i] = "doi.org/"
        ok == token = <<"/">> \/ has_dig \/ internal_dot
        ndots == Cardinality({i \in 1..n : token[i] \in {".", "10.", "doi.org/"}})
        has_slash == \E i \in 1..n : token[i] \in {"/", "doi.org/"}
    IN  /\ ok
        /\ token[n] \in {".", "10."} => (has_slash \/ ndots > 1)

aggressive_join(prv, frag) ==
    LET prevs == strip(prv)
        cc == LStrip(frag, LeadPunctAtom)
        token == Slice(cc, 1, run_end(cc, 1))
    IN  /\ prevs # <<>>
        /\ prevs[Len(prevs)] # "doi:"
        /\ prevs[1] \in {"doi:", "10."} \/ is_http(prevs, 1)
        /\ cc # <<>>
        /\ \A i \in 1..Len(token) : token[i] \notin {"https://", "doi:"}
        /\ aggressive_token_ok(token)

RECURSIVE conservative_doi_reattach_aggressive_from(_, _, _)
conservative_doi_reattach_aggressive_from(frags, i, out) ==
    IF i > Len(frags) THEN out
    ELSE IF aggressive_join(Last(out), frags[i])
         THEN conservative_doi_reattach_aggressive_from(frags, i + 1,
                  SetLast(out, RStrip(Last(out), {" "}) \o LStrip(frags[i], LeadPunctAtom)))
         ELSE conservative_doi_reattach_aggressive_from(frags, i + 1, Append(out, frags[i]))

conservative_doi_reattach_aggressive(frags) ==
    IF frags = <<>> THEN frags
    ELSE conservative_doi_reattach_aggressive_from(frags, 2, <<frags[1]>>)

\* ' '.join(frag.strip() for frag in frags)
RECURSIVE join_frags(_, _)
join_frags(frags, i) ==
    IF i > Len(frags) THEN <<>>
    ELSE (IF i > 1 THEN <<" ">> ELSE <<>>) \o strip(frags[i]) \o join_frags(frags, i + 1)

\* move_doi_to_end, lines 562-605: the text the ids are extracted from
\* (fix_broken_doi_tokens needs 'https://doi.org' without its slash or
\* 'doi. org' and rewrites nothing over these atoms)
reattached_text(ref) ==
    join_frags(conservative_doi_reattach_aggressive(conservative_doi_reattach(
        split_urls_and_dois(normalize_doi_in_fragment(collapse_doi_colon(ref))))), 1)

\* extract_doi_ids, _collapse_after_doi_org: the (at most MAX_TAIL_TOKENS)
\* tokens after a URL prefix are glued when the first ends with a split
\* character and the second is no capitalised word
RECURSIVE tail_tokens_end(_, _, _)
tail_tokens_end(s, q, n) ==
    IF n = 0 \/ skip_sp(s, q) > Len(s) THEN q
    ELSE tail_tokens_end(s, run_end(s, skip_sp(s, q)), n - 1)

collapse_rest(rest) ==
    LET b1 == skip_sp(rest, 1)
        e1 == run_end(rest, b1)
        first == Slice(rest, b1, e1)
        b2 == skip_sp(rest, e1)
        nexttok == RStrip(LStrip(Slice(rest, b2, run_end(rest, b2)), PunctStripAtom),
                          PunctStripAtom)
    IN  IF ~ends_split(first) THEN rest
        ELSE IF b2 <= Len(rest) /\ Len(nexttok) = 1 /\ nexttok[1] \in UpperWordAtom
             THEN rest
             ELSE rstrip_punct(SelectSeq(rest, LAMBDA a : a # " "))

RECURSIVE collapse_after_doi_org(_, _)
collapse_after_doi_org(s, p) ==
    LET P == {q \in p..Len(s) :
                 is_http(s, q) /\ tail_tokens_end(s, q + 2, MAX_TAIL_TOKENS) > q + 2}
    IN  IF P = {} THEN Slice(s, p, Len(s) + 1)
        ELSE LET q == tail_tokens_end(s, Min(P) + 2, MAX_TAIL_TOKENS)
             IN  Slice(s, p, Min(P)) \o <<"https://", "doi.org/">>
                 \o collapse_rest(Slice(s, Min(P) + 2, q))
                 \o collapse_after_doi_org(s, q)

\* \b10\.\d{4,9}/[^\s\)\]\,;]+ at position p
id_at(s, p) ==
    /\ p + 3 <= Len(s)
    /\ s[p] = "10." /\ boundary(s, p)
    /\ s[p + 1] \in RegistrantTok4 /\ s[p + 2] = "/" /\ s[p + 3] # " "

\* where the captured token begins when the regular expression named by kind
\* matches at position p, and 0 when it does not
\*   "http", "http_tail" : DOI_HTTP_URL_RE, DOI_HTTP_URL_WITH_TAIL_RE
\*   "bare", "bare_tail" : DOI_BARE_URL_RE, DOI_BARE_URL_WITH_TAIL_RE
\*   "colon"             : DOI_COLON_CAPTURE_RE
\*   "id", "broken"      : DOI_ID_RE, DOI_BROKEN_TWO_TOKEN_RE
scan_body(kind, s, p) ==
    CASE kind \in {"http", "http_tail"} -> IF is_http(s, p) THEN p + 2 ELSE 0
      [] kind \in {"bare", "bare_tail"} ->
             IF s[p] = "doi.org/" /\ boundary(s, p) THEN p + 1 ELSE 0
      [] kind = "colon" ->
             IF s[p] = "doi:" /\ boundary(s, p) THEN skip_sp(s, p + 1) ELSE 0
      [] OTHER -> IF id_at(s, p) THEN p ELSE 0

\* the regular expression named by kind matches at position p
match_at(kind, s, p) ==
    LET b == scan_body(kind, s, p)
        e == run_end(s, b)
        t == skip_sp(s, e)
    IN  /\ b # 0 /\ e > b
        /\ kind \in {"http_tail", "bare_tail", "broken"} => (t > e /\ t <= Len(s))

\* the match at position p: its span [start, end) and its two groups (second
\* is empty when the match has no second token)
match_of(kind, s, p) ==
    LET b == scan_body(kind, s, p)
        e == run_end(s, b)
        t == skip_sp(s, e)
        te == run_end(s, t)
        takes_tail == kind \notin {"http", "bare", "id"} /\ t > e /\ t <= Len(s)
    IN  [start |-> p,
         end |-> IF kind = "colon" THEN skip_sp(s, IF takes_tail THEN te ELSE e)
                 ELSE IF takes_tail THEN te ELSE e,
         first |-> Slice(s, b, e),
         second |-> IF takes_tail THEN Slice(s, t, te) ELSE <<>>]

\* re.finditer of the regular expression named by kind: the matches from
\* position p on, none overlapping the one before it
RECURSIVE finditer(_, _, _)
finditer(kind, s, p) ==
    LET P == {q \in p..Len(s) : match_at(kind, s, q)}
    IN  IF P = {} THEN <<>>
        ELSE <<match_of(kind, s, Min(P))>>
             \o finditer(kind, s, match_of(kind, s, Min(P)).end)

\* DOI_HTTP_URL_RE.search(candidate): the captured id, or the candidate
url_in(c) ==
    LET P == {p \in 1..Len(c) : is_http(c, p) /\ p + 2 <= Len(c)}
    IN  IF P = {} THEN c ELSE rstrip_punct(Slice(c, Min(P) + 2, Len(c) + 1))

\* the candidate a match of a two-token form stands for
joined_candidate(m) ==
    IF m.second # <<>> /\ ends_split(m.first)
    THEN rstrip_punct(m.first \o m.second)
    ELSE rstrip_punct(m.first)

\* extract_doi_ids, lines 489-525: the candidates in encounter order
candidates(ref) ==
    LET urls == finditer("http", ref, 1)
        colons == finditer("colon", ref, 1)
        bares == finditer("id", ref, 1)
        broken == SelectSeq(finditer("broken", ref, 1), LAMBDA m : ends_split(m.first))
    IN  [i \in 1..Len(urls) |-> rstrip_punct(urls[i].first)]
        \o [i \in 1..Len(colons) |-> url_in(joined_candidate(colons[i]))]
        \o [i \in 1..Len(bares) |-> rstrip_punct(bares[i].first)]
        \o [i \in 1..Len(broken) |-> rstrip_punct(broken[i].first \o broken[i].second)]

\* extract_doi_ids, lines 527-535: first occurrences
dedupe(cands) ==
    KeepAt(cands, {i \in 1..Len(cands) :
        cands[i] # <<>> /\ \A j \in 1..i - 1 : cands[j] # cands[i]})

\* is_valid_id without the validation
is_valid_id_any(c) == Len(c) >= 1

\* extract_doi_ids, lines 539-541: ^10\.\d{2,9}/[^\s\)\]\.,;]+ and no
\* trailing split character
is_valid_id(c) ==
    /\ Len(c) >= 4
    /\ c[1] = "10." /\ c[2] \in RegistrantTok2 /\ c[3] = "/"
    /\ c[4] \notin {".", " "}
    /\ ~ends_split(c)

\* cid in other
contains(other, cid) ==
    \E i \in 1..Len(other) - Len(cid) + 1 : SubSeq(other, i, i + Len(cid) - 1) = cid

\* filter_substrings without the filter
filter_nothing(valid) == valid

\* extract_doi_ids, lines 544-548
filter_substrings(valid) ==
    SelectSeq(valid, LAMBDA cid :
        ~\E k \in 1..Len(valid) : valid[k] # cid /\ contains(valid[k], cid))

extract_doi_ids(text) ==
    IF text = <<>> THEN <<>>
    ELSE filter_substrings(SelectSeq(dedupe(candidates(collapse_after_doi_org(text, 1))),
                                     is_valid_id))

\* cid in doi_ids
is_doi_id(doi_ids, cid) == \E k \in 1..Len(doi_ids) : doi_ids[k] = cid

\* move_doi_to_end, lines 613-669: the match m of the form named by kind
\* stands for one of doi_ids
span_accepted(kind, m, doi_ids) ==
    IF kind \in {"http", "bare", "id"}
    THEN is_doi_id(doi_ids, rstrip_punct(m.first))
    ELSE IF kind = "colon" /\ m.second = <<>>
         THEN is_doi_id(doi_ids, rstrip_punct(m.first))
         ELSE /\ ends_split(m.first)
              /\ is_doi_id(doi_ids, rstrip_punct(m.first \o m.second))

\* the spans [start, end) of the accepted matches of one form
spans_of(kind, text, doi_ids) ==
    {<<m.start, m.end>> : m \in
        {n \in Range(finditer(kind, text, 1)) : span_accepted(kind, n, doi_ids)}}

\* move_doi_to_end, lines 611-669
doi_spans(text, doi_ids) ==
    UNION {spans_of(kind, text, doi_ids) : kind \in
        {"http", "bare", "http_tail", "bare_tail", "colon", "id", "broken"}}

\* position i lies in one of the spans
covered(spans, i) == \E sp \in spans : sp[1] <= i /\ i < sp[2]

\* move_doi_to_end, lines 672-688: every merged span is replaced by one blank
remove_spans(text, spans) ==
    KeepAt([i \in 1..Len(text) |-> IF covered(spans, i) THEN " " ELSE text[i]],
           {i \in 1..Len(text) :
               ~covered(spans, i) \/ i = 1 \/ ~covered(spans, i - 1)})

\* move_doi_to_end, line 690: a URL prefix in front of another scheme
RECURSIVE double_scheme(_, _)
double_scheme(s, p) ==
    LET P == {q \in p..Len(s) - 2 : is_http(s, q) /\ s[q + 2] = "https://"}
    IN  IF P = {} THEN Slice(s, p, Len(s) + 1)
        ELSE Slice(s, p, Min(P)) \o <<"https://">> \o double_scheme(s, Min(P) + 3)

\* remove_stray_doi_prefixes, line 1081: \b(doi\.org/)\s*(10\.[0-9]{4,9}/) -> \2
RECURSIVE stray_prefix_before_id(_, _)
stray_prefix_before_id(s, p) ==
    LET id_head(q) == /\ q + 2 <= Len(s)
                      /\ s[q] = "10." /\ s[q + 1] \in RegistrantTok4 /\ s[q + 2] = "/"
        P == {q \in p..Len(s) :
                 s[q] = "doi.org/" /\ boundary(s, q) /\ id_head(skip_sp(s, q + 1))}
    IN  IF P = {} THEN Slice(s, p, Len(s) + 1)
        ELSE Slice(s, p, Min(P))
             \o Slice(s, skip_sp(s, Min(P) + 1), skip_sp(s, Min(P) + 1) + 3)
             \o stray_prefix_before_id(s, skip_sp(s, Min(P) + 1) + 3)

\* remove_stray_doi_prefixes, line 1086: \b(?:doi\.org/)(?!\s*10\.)\s* -> ''
RECURSIVE stray_prefix_alone(_, _)
stray_prefix_alone(s, p) ==
    LET P == {q \in p..Len(s) :
                 /\ s[q] = "doi.org/" /\ boundary(s, q)
                 /\ ~(skip_sp(s, q + 1) <= Len(s) /\ s[skip_sp(s, q + 1)] = "10.")}
    IN  IF P = {} THEN Slice(s, p, Len(s) + 1)
        ELSE Slice(s, p, Min(P)) \o stray_prefix_alone(s, skip_sp(s, Min(P) + 1))

\* remove_stray_doi_prefixes, lines 1090-1096: \bdoi:\s*(token)? -> token
RECURSIVE stray_doi_colon(_, _)
stray_doi_colon(s, p) ==
    LET P == {q \in p..Len(s) : s[q] = "doi:" /\ boundary(s, q)}
    IN  IF P = {} THEN Slice(s, p, Len(s) + 1)
        ELSE LET q == skip_sp(s, Min(P) + 1)
             IN  Slice(s, p, Min(P)) \o Slice(s, q, run_end(s, q))
                 \o stray_doi_colon(s, run_end(s, q))

remove_stray_doi_prefixes(s) ==
    IF s = <<>> THEN s
    ELSE space_before_punct(strip(collapse_ws(
             stray_doi_colon(stray_prefix_alone(stray_prefix_before_id(s, 1), 1), 1))))

\* the connectors 'with and', 'for and' ... do not occur over these atoms
cleanup_dangling_after_removal(s) ==
    IF s = <<>> THEN s ELSE space_before_punct(strip(collapse_ws(s)))

\* ' '.join(f'https://doi.org/{cid}' for cid in doi_ids)
RECURSIVE doi_urls(_, _)
doi_urls(doi_ids, i) ==
    IF i > Len(doi_ids) THEN <<>>
    ELSE (IF i > 1 THEN <<" ">> ELSE <<>>) \o <<"https://", "doi.org/">> \o doi_ids[i]
         \o doi_urls(doi_ids, i + 1)

\* move_doi_to_end, lines 685-709: the body left after the removal
body_after_removal(text, doi_ids) ==
    cleanup_dangling_after_removal(remove_stray_doi_prefixes(
        RStrip(collapse_ws(strip(double_scheme(
            remove_spans(text, doi_spans(text, doi_ids)), 1))), {"."})))

move_doi_to_end(ref) ==
    LET ref0 == collapse_doi_colon(ref)
        text == reattached_text(ref)
        doi_ids == extract_doi_ids(text)
        new_text == body_after_removal(text, doi_ids)
    IN  IF doi_ids = <<>> THEN ref0
        ELSE IF new_text # <<>>
             THEN strip(new_text \o <<".", " ">> \o doi_urls(doi_ids, 1))
             ELSE strip(doi_urls(doi_ids, 1))

(* ------------------------------ the inputs ---------------------------- *)
\* physical lines as load_and_preprocess returns them: non-blank, trimmed
LinePool ==
    { <<"Smith,", "J.", "J.">>,
      <<"Smith,", "J.,", "&">>,
      <<"Smith,", "J.", "(2020)", "Title">>,
      <<"SOU", "2020:11", "Title">>,
      <<"SOU:2020:11">>,
      <<"Title", "of", "paper.">>,
      <<"Smith", "&">>,
      <<"(Eds.)">>,
      <<"Title", "(2020)">>,
      <<"&", "Smith,", "J.">>,
      <<"J.", "(2020)", "Title">>,
      <<"thesis].", "Smith,", "J.", "(2020)", "Title">>,
      <<"Title", "2020.">>,
      <<"Smith", "and">> }

\* an author head followed by k continuation lines
Chain(k) ==
    [i \in 1..(k + 1) |->
        IF i = 1 THEN <<"Smith,", "J.", "J.">> ELSE <<"Title", "of", "paper.">>]

SegBuffers ==
    UNION {[1..n -> LinePool] : n \in 1..MaxLines}
        \cup {Chain(k) : k \in 1..MaxChain}

\* values of DOIREF_MAX_ITER: zero, the smallest positive cap and the default
CapChoices == {0, 1, MAX_ITER_DEFAULT}

(* --------------------- the author-year path of doiref.py -------------- *)
\* the words of a fragment, one blank between two words
text_of(toks) ==
    [i \in 1..2 * Len(toks) - 1 |-> IF i % 2 = 1 THEN toks[(i + 1) \div 2] ELSE " "]

\* str.split() of a fragment whose words are single atoms
words_of(s) == SelectSeq(s, LAMBDA a : a # " ")

\* fix_diaeresis_errors: '¨o' -> 'ö', '¨a' -> 'ä', '¨u' -> 'ü' and the capitals
fix_diaeresis_word(w) ==
    CASE w = "f¨or" -> "för"
      [] w = "M¨unchen" -> "München"
      [] OTHER -> w

fix_diaeresis_errors(toks) == [i \in 1..Len(toks) |-> fix_diaeresis_word(toks[i])]

\* the variables of the segmenter while another part of the program runs
SegIdle ==
    /\ input = <<>> /\ lines = <<>> /\ MAX_ITER = MAX_ITER_DEFAULT
    /\ prev = <<>> /\ iteration = 0 /\ iter2 = 0 /\ joinExit = "none"
    /\ final_refs = <<>> /\ final_refs2 = <<>> /\ written = <<>>
    /\ iter_e = 0

\* the variables of the DOI helpers while another part of the program runs
DoiIdle == fragment = <<>> /\ ids = <<>> /\ moved = <<>> /\ moved2 = <<>>

\* the variables of the numbered path while another part of the program runs
NumIdle ==
    /\ count_lines = <<>> /\ STRIP_NUMBERS = FALSE /\ args_until_eof = FALSE
    /\ no_numbered_fallback = FALSE /\ reextract = FALSE
    /\ local_max_iter = MAX_ITER_DEFAULT
    /\ bracket_count = 0 /\ paren_count = 0 /\ bare_count = 0
    /\ numbered_style = "none" /\ num_count = 0
    /\ prev_num = <<>> /\ iter_num = 0 /\ final_numbered = <<>>
    /\ num_written = <<>> /\ out_lines = <<>>

\* the variables of load_and_preprocess while another part of the program runs
LoadIdle ==
    /\ full_text = <<>> /\ use_txt_file = FALSE /\ until_eof = FALSE
    /\ extractor = "pdfminer" /\ raised = FALSE
    /\ references_text = <<>> /\ norm_lines = <<>>

\* no file, or no buffer yet
NoText == [text |-> "none", stages |-> <<>>]

\* the variables of the whole run while another part of the program runs
RunIdle ==
    /\ script = "doiref.py"
    /\ args_extractor = "pdfminer" /\ txt_mode = FALSE
    /\ backend_ok = [k \in {"txt", "pdfminer", "pymupdf"} |-> TRUE]
    /\ document = [empty |-> FALSE, numbered |-> FALSE, standalone |-> FALSE,
                   renumbered |-> FALSE]
    /\ fault = "none" /\ debug_dir = "empty" /\ get_calls = <<>>
    /\ run_lines = NoText /\ artifact = NoText /\ stripped = NoText
    /\ nonapa_lines = NoText /\ nonapa_artifact = NoText /\ pass_idx = 0

\* the variables of hyphen_join_fixed_point while another part runs
HyphIdle ==
    /\ hyph_input = <<>> /\ hyph_max_iter = HYPHEN_MAX_ITER_DEFAULT
    /\ hyph_prev = <<>> /\ hyph_iter_n = 0
    /\ hyph_returned = <<>> /\ hyph_exit = "none"

\* the threads that call the debug store
Threads == {"t1", "t2"}

\* the base names the threads ask for
BaseNames == {"a.txt", "b.txt"}

\* no canonical name: the base name is not in _mapping
NoCanonical == [seq |-> 0, dup |-> 0, base |-> "none"]

\* no call
NoOp == [fn |-> "none", base |-> "none", remove |-> FALSE]

\* a thread's locals before it has read or computed anything
NoLocal == [counter |-> 0, canonical |-> NoCanonical]

\* the variables of the debug store while another part runs
DbgIdle ==
    /\ dbg_enabled = FALSE /\ lock_holder = "free" /\ state_loaded = FALSE
    /\ dbg_mapping = [b \in BaseNames |-> NoCanonical] /\ dbg_counter = 0
    /\ state_files = [present |-> FALSE,
                      map |-> [b \in BaseNames |-> NoCanonical],
                      counter |-> 0]
    /\ dir_files = {}
    /\ thread_pc = [t \in Threads |-> "idle"]
    /\ thread_op = [t \in Threads |-> NoOp]
    /\ thread_local = [t \in Threads |-> NoLocal]
    /\ thread_calls = [t \in Threads |-> 0]
    /\ handed_out = {} /\ allocations = 0 /\ unlocked_access = FALSE

\* the variables of fix_dashed_refs.py while another part runs
DashIdle ==
    dash_input = <<>> /\ dash_result = <<>> /\ last_author_prefix = <<>>

\* the variables of the trailer split while another part runs
SplitIdle == split_family = "none" /\ split_refs = <<>> /\ split_out = <<>>

\* the variables of the Type-A joiner while another part runs
TypeAIdle ==
    /\ ta_lines = <<>> /\ MAX_APPEND_STEPS = 0 /\ ta_i = 1
    /\ current = <<>> /\ steps = 0 /\ references = <<>>

\* the variables of doireg.py while another part runs
PageIdle == extent_val = -1 /\ min_page = -1 /\ max_page = -1

RestIdle ==
    RunIdle /\ HyphIdle /\ DbgIdle /\ DashIdle /\ SplitIdle /\ TypeAIdle
        /\ PageIdle

CoreIdle == SegIdle /\ DoiIdle /\ NumIdle /\ LoadIdle

NotRunIdle ==
    CoreIdle /\ HyphIdle /\ DbgIdle /\ DashIdle /\ SplitIdle /\ TypeAIdle
        /\ PageIdle

NotHyphIdle ==
    CoreIdle /\ RunIdle /\ DbgIdle /\ DashIdle /\ SplitIdle /\ TypeAIdle
        /\ PageIdle

NotDbgIdle ==
    CoreIdle /\ RunIdle /\ HyphIdle /\ DashIdle /\ SplitIdle /\ TypeAIdle
        /\ PageIdle

NotDashIdle ==
    CoreIdle /\ RunIdle /\ HyphIdle /\ DbgIdle /\ SplitIdle /\ TypeAIdle
        /\ PageIdle

NotSplitIdle ==
    CoreIdle /\ RunIdle /\ HyphIdle /\ DbgIdle /\ DashIdle /\ TypeAIdle
        /\ PageIdle

NotTypeAIdle ==
    CoreIdle /\ RunIdle /\ HyphIdle /\ DbgIdle /\ DashIdle /\ SplitIdle
        /\ PageIdle

NotPageIdle ==
    CoreIdle /\ RunIdle /\ HyphIdle /\ DbgIdle /\ DashIdle /\ SplitIdle
        /\ TypeAIdle

SegInit ==
    /\ input \in SegBuffers
    /\ lines = input
    /\ MAX_ITER \in CapChoices
    /\ pc = "year_start"
    /\ prev = <<>>
    /\ iteration = 0
    /\ iter_e = 0
    /\ iter2 = 0
    /\ joinExit = "none"
    /\ final_refs = <<>>
    /\ final_refs2 = <<>>
    /\ written = <<>>
    /\ DoiIdle /\ NumIdle /\ LoadIdle /\ RestIdle

\* an early pass: rewrite `lines` and move on
EarlyPass(at, result, next) ==
    /\ pc = at
    /\ lines' = result
    /\ pc' = next
    /\ UNCHANGED <<input, iter_e, MAX_ITER, prev, iteration, iter2, joinExit,
                   final_refs, final_refs2, written>>
    /\ UNCHANGED <<doiVars, numVars, loadVars, restVars>>

MergeStartParen ==
    EarlyPass("year_start", merged_start_paren(lines, 1, <<>>), "year_end")

YearEndPreAppend ==
    EarlyPass("year_end", year_end_pre_append(lines, 1, <<>>), "single_token")

SingleTokenJoin ==
    EarlyPass("single_token", single_token_join(lines, 1), "initials_year")

InitialsYearMerge ==
    EarlyPass("initials_year", merged_initials(lines, 1, <<>>), "ampersand")

AmpersandMerge ==
    EarlyPass("ampersand", merged_amp(lines, 1, <<>>), "ampersand_start")

AmpersandStartMerge ==
    EarlyPass("ampersand_start", merged_amp_start(lines, 1, <<>>), "editor")

\* doiref.py 975-1059: one round of the editor loop; on leaving the loop
\* `prev = lines; iteration = 0` (1144-1145)
EditorMerge ==
    /\ pc = "editor"
    /\ iter_e' = iter_e + 1
    /\ lines' = editor_round(lines)
    /\ IF editor_exit(lines', iter_e')
       THEN pc' = "join" /\ prev' = lines'
       ELSE UNCHANGED <<pc, prev>>
    /\ iteration' = 0
    /\ UNCHANGED <<input, MAX_ITER, iter2, joinExit, final_refs, final_refs2,
                   written>>
    /\ UNCHANGED <<doiVars, numVars, loadVars, restVars>>

\* doiref.py 1146-1177: one turn of the author-head loop; on leaving the
\* loop the result is written to the output file and becomes the input of
\* the append-nonyear loop (1206-1207)
JoinPass ==
    /\ pc = "join"
    /\ LET new == one_pass_apply(prev)
           why == loop_exit(new, prev, iteration + 1, MAX_ITER)
       IN  /\ iteration' = iteration + 1
           /\ prev' = new
           /\ IF why = "continue"
              THEN UNCHANGED <<pc, joinExit, final_refs, written>>
              ELSE /\ pc' = "append"
                   /\ joinExit' = why
                   /\ final_refs' = new
                   /\ written' = new
    /\ iter2' = 0
    /\ UNCHANGED <<input, iter_e, lines, MAX_ITER, final_refs2>>
    /\ UNCHANGED <<doiVars, numVars, loadVars, restVars>>

\* doiref.py 1208-1226: one turn of the append-nonyear loop
AppendNonyearPass ==
    /\ pc = "append"
    /\ LET new2 == append_nonyear_pass(prev)
           why == loop_exit(new2, prev, iter2 + 1, MAX_ITER)
       IN  /\ iter2' = iter2 + 1
           /\ prev' = new2
           /\ IF why = "continue"
              THEN UNCHANGED <<pc, final_refs2>>
              ELSE pc' = "post_split" /\ final_refs2' = new2
    /\ UNCHANGED <<input, iter_e, lines, MAX_ITER, iteration, joinExit, final_refs,
                   written>>
    /\ UNCHANGED <<doiVars, numVars, loadVars, restVars>>

\* doiref.py 1241-1262
PostSplit ==
    /\ pc = "post_split"
    /\ final_refs2' = post_split(final_refs2, 1, <<>>)
    /\ pc' = "doi"
    /\ UNCHANGED <<input, iter_e, lines, MAX_ITER, prev, iteration, iter2,
                   joinExit,
                   final_refs, written>>
    /\ UNCHANGED <<doiVars, numVars, loadVars, restVars>>

\* doiref.py 1279-1298: the DOI pass, applied twice, then the output file is
\* rewritten with the diaeresis fix applied to every reference
WriteOutput ==
    /\ pc = "doi"
    /\ final_refs2' = [i \in 1..Len(final_refs2) |->
                          words_of(move_doi_to_end(move_doi_to_end(text_of(final_refs2[i]))))]
    /\ written' = [i \in 1..Len(final_refs2) |-> fix_diaeresis_errors(final_refs2'[i])]
    /\ pc' = "done"
    /\ UNCHANGED <<input, iter_e, lines, MAX_ITER, prev, iteration, iter2,
                   joinExit,
                   final_refs>>
    /\ UNCHANGED <<doiVars, numVars, loadVars, restVars>>

SegNext ==
    \/ MergeStartParen
    \/ YearEndPreAppend
    \/ SingleTokenJoin
    \/ InitialsYearMerge
    \/ AmpersandMerge
    \/ AmpersandStartMerge
    \/ EditorMerge
    \/ JoinPass
    \/ AppendNonyearPass
    \/ PostSplit
    \/ WriteOutput

SegSpec == SegInit /\ [][SegNext]_vars

(* ----------------------- the DOI helpers, applied --------------------- *)
\* the tokens the fragments handed to the DOI helpers are made of
DoiTokenPool ==
    { <<"See">>, <<"See", ".">>, <<"cd">>, <<"2020">>,
      <<"10.", "1234", "/", "ab">>,
      <<"10.", "1234", "/", "ab", "cd">>,
      <<"10.", "12", "/", "ab">>,
      <<"https://", "doi.org/", "10.", "1234", "/", "ab">>,
      <<"https://", "doi.org/", "10.", "12", "/", "ab">>,
      <<"doi:", "10.", "1234", "/", "ab">>,
      <<"doi:", "10.", "12", "/", "ab">>,
      <<"doi.org/", "10.", "1234", "/", "ab">>,
      <<"doi:">>,
      <<"10.", "1234", "/", "ab", "-">>,
      <<"https://", "doi.org/", "10.", "1234", "/", "ab", "-">> }

\* the tokens of f, one blank between two tokens
join_tokens(f) ==
    Flat([i \in 1..Len(f) |-> (IF i > 1 THEN <<" ">> ELSE <<>>) \o f[i]])

DoiTexts ==
    UNION {{join_tokens(f) : f \in [1..n -> DoiTokenPool]} : n \in 1..MaxDoiToks}

DoiInit ==
    /\ pc = "doi_in"
    /\ fragment \in DoiTexts
    /\ ids = <<>> /\ moved = <<>> /\ moved2 = <<>>
    /\ SegIdle /\ NumIdle /\ LoadIdle /\ RestIdle

ExtractDoiIds ==
    /\ pc = "doi_in"
    /\ ids' = extract_doi_ids(fragment)
    /\ pc' = "doi_ids"
    /\ UNCHANGED <<fragment, moved, moved2>>
    /\ UNCHANGED <<segVars, numVars, loadVars, restVars>>

\* doiref.py 1279: final_refs2 = [move_doi_to_end(r) for r in final_refs2]
MoveDoiToEnd ==
    /\ pc = "doi_ids"
    /\ moved' = move_doi_to_end(fragment)
    /\ pc' = "doi_moved"
    /\ UNCHANGED <<fragment, ids, moved2>>
    /\ UNCHANGED <<segVars, numVars, loadVars, restVars>>

\* doiref.py 1280: the same statement a second time
MoveDoiAgain ==
    /\ pc = "doi_moved"
    /\ moved2' = move_doi_to_end(moved)
    /\ pc' = "doi_done"
    /\ UNCHANGED <<fragment, ids, moved>>
    /\ UNCHANGED <<segVars, numVars, loadVars, restVars>>

DoiNext ==
    \/ ExtractDoiIds
    \/ MoveDoiToEnd
    \/ MoveDoiAgain

DoiSpec == DoiInit /\ [][DoiNext]_vars

(* --------------------- the numbered path of doiref.py ----------------- *)
\* A line of a numbered document is a sequence of words <<kind, n>>: a
\* numbering prefix "[n]" <<"bracket", n>>, "(n)" <<"paren", n>> or "n."
\* <<"bare", n>>, a government marker <<"gov", 0>>, any other word
\* <<"word", 0>>.
NumWord == <<"word", 0>>

GovWord == <<"gov", 0>>

\* re_bracket / re_paren / re_bare and numbered_pattern: the line starts with
\* a numbering prefix of the style
re_numbered(style, ln) == ln # <<>> /\ ln[1][1] = style

\* bracket_count, paren_count, bare_count
count_style(style, doc) ==
    Cardinality({i \in 1..Len(doc) : re_numbered(style, doc[i])})

\* bare_threshold = 30 if args.until_eof else 10
bare_threshold(eof) == IF eof THEN BARE_MIN_EOF ELSE BARE_MIN

\* the style whose count is highest among the styles that meet their threshold
detect_style_highest(nb, np, nr, eof) ==
    LET met == {s \in {"bracket", "paren", "bare"} :
                   \/ s = "bracket" /\ nb >= BRACKET_MIN
                   \/ s = "paren" /\ np >= PAREN_MIN
                   \/ s = "bare" /\ nr >= bare_threshold(eof)}
        cnt(s) == IF s = "bracket" THEN nb ELSE IF s = "paren" THEN np ELSE nr
    IN  IF met = {} THEN [numbered_style |-> "none", num_count |-> 0]
        ELSE LET best == CHOOSE s \in met : \A t \in met : cnt(s) >= cnt(t)
             IN  [numbered_style |-> best, num_count |-> cnt(best)]

\* the if / elif / else of the detection
detect_style(nb, np, nr, eof) ==
    IF nb >= BRACKET_MIN THEN [numbered_style |-> "bracket", num_count |-> nb]
    ELSE IF np >= PAREN_MIN THEN [numbered_style |-> "paren", num_count |-> np]
    ELSE IF nr >= bare_threshold(eof)
         THEN [numbered_style |-> "bare", num_count |-> nr]
         ELSE [numbered_style |-> "none", num_count |-> 0]

\* the detection repeated after the re-extraction: it has no final else, the
\* earlier selection stays when no count meets its threshold
redetect_style(old, nb, np, nr, eof) ==
    IF nb >= BRACKET_MIN THEN [numbered_style |-> "bracket", num_count |-> nb]
    ELSE IF np >= PAREN_MIN THEN [numbered_style |-> "paren", num_count |-> np]
    ELSE IF nr >= bare_threshold(eof)
         THEN [numbered_style |-> "bare", num_count |-> nr]
         ELSE old

\* trigger_threshold
trigger_threshold(style, eof) ==
    IF style = "bare" /\ eof THEN TRIGGER_MIN_EOF ELSE TRIGGER_MIN

\* one iteration of the for loop of one_numbered_pass; curr = <<>> stands
\* for None and curr_number = -1 for None
\* a content-less numbered line never opens a fragment
stub_never_starts(this_num, curr_number) == FALSE

\* this_num == curr_number + 1: the content-less numbered line carries the
\* number that follows the number of the current fragment
stub_is_next_number(this_num, curr_number) == this_num = curr_number + 1

numbered_step(st, ln, style) ==
    IF re_numbered(style, ln)
    THEN LET this_num == ln[1][2]
             rest == Tail(ln)
         IN  IF st.curr # <<>> /\ rest = <<>> /\ st.curr_number # -1
             THEN IF stub_is_next_number(this_num, st.curr_number)
                  THEN [out |-> Append(st.out, st.curr), curr |-> ln,
                        curr_number |-> this_num]
                  ELSE [st EXCEPT !.curr = st.curr \o ln]
             ELSE [out |-> IF st.curr # <<>> THEN Append(st.out, st.curr)
                           ELSE st.out,
                   curr |-> ln, curr_number |-> this_num]
    ELSE IF st.curr = <<>>
         THEN [st EXCEPT !.curr = ln, !.curr_number = -1]
         ELSE IF ln[1] = GovWord
              THEN [out |-> Append(st.out, st.curr), curr |-> ln,
                    curr_number |-> -1]
              ELSE [st EXCEPT !.curr = st.curr \o ln]

RECURSIVE numbered_fold(_, _, _, _)
numbered_fold(st, doc, i, style) ==
    IF i > Len(doc) THEN st
    ELSE numbered_fold(numbered_step(st, doc[i], style), doc, i + 1, style)

one_numbered_pass(input_lines, style) ==
    LET st == numbered_fold([out |-> <<>>, curr |-> <<>>, curr_number |-> -1],
                            input_lines, 1, style)
    IN  IF st.curr # <<>> THEN Append(st.out, st.curr) ELSE st.out

\* the style number_prefix_re is built for: bracket, paren, else bare
prefix_style(style) ==
    IF style \in {"bracket", "paren"} THEN style ELSE "bare"

\* number_prefix_re.sub with no removal
number_prefix_kept(style, ref) == ref

\* number_prefix_re.sub('', ref, count=1)
number_prefix_sub(style, ref) ==
    IF re_numbered(prefix_style(style), ref) THEN Tail(ref) ELSE ref

\* the lines whose rest after the prefix is empty
standalone_count(style, out) ==
    Cardinality({i \in 1..Len(out) : number_prefix_sub(style, out[i]) = <<>>})

\* n numbered lines of one style, numbered 1..n, with or without text
Block(style, n, alone) ==
    [i \in 1..n |-> IF alone THEN <<<<style, i>>>> ELSE <<<<style, i>>, NumWord>>]

\* the lines that follow the numbered blocks
NumTails ==
    { <<>>,
      << <<NumWord>> >>,
      << <<GovWord, NumWord>> >>,
      << <<NumWord>>, <<GovWord>>, <<NumWord>> >>,
      << <<<<"bracket", 16>>>>, <<<<"bracket", 17>>>> >>,
      << <<<<"bracket", 16>>>>, <<<<"bracket", 30>>>> >>,
      << <<<<"bracket", 16>>, NumWord>>, <<<<"bracket", 30>>>> >>,
      << <<<<"paren", 16>>>>, <<<<"paren", 30>>>>, <<NumWord>> >>,
      << <<<<"bare", 16>>>>, <<<<"bare", 30>>>> >>,
      << <<<<"bare", 16>>>>, <<NumWord>>, <<<<"bracket", 17>>, NumWord>> >> }

BracketCounts == {0, BRACKET_MIN - 1, BRACKET_MIN, BRACKET_MIN + MaxExtra}

ParenCounts == {0, PAREN_MIN - 1, PAREN_MIN, PAREN_MIN + MaxExtra}

BareCounts == {0, BARE_MIN - 1, BARE_MIN, BARE_MIN_EOF - 1, BARE_MIN_EOF}

NumDocs ==
    {Block("bracket", nb, al) \o Block("paren", np, FALSE)
        \o Block("bare", nr, al) \o t :
        nb \in BracketCounts, np \in ParenCounts, nr \in BareCounts,
        al \in BOOLEAN, t \in NumTails}

\* what the re-extraction with pymupdf returns
ReDocs ==
    { Block("bracket", BRACKET_MIN, FALSE),
      Block("paren", PAREN_MIN, FALSE),
      Block("bracket", BRACKET_MIN - 1, FALSE) \o << <<NumWord>> >> }

\* the state before the detection of the numbering style
NumInit ==
    /\ pc = "num_start"
    /\ count_lines \in NumDocs
    /\ STRIP_NUMBERS \in BOOLEAN
    /\ args_until_eof \in BOOLEAN
    /\ no_numbered_fallback \in BOOLEAN
    /\ reextract \in BOOLEAN
    /\ local_max_iter \in {1, MAX_ITER_DEFAULT}
    /\ bracket_count = 0 /\ paren_count = 0 /\ bare_count = 0
    /\ numbered_style = "none" /\ num_count = 0
    /\ prev_num = <<>> /\ iter_num = 0 /\ final_numbered = <<>>
    /\ num_written = <<>> /\ out_lines = <<>>
    /\ SegIdle /\ DoiIdle /\ LoadIdle /\ RestIdle

\* the counts and the if / elif / else that selects the style
DetectStyle ==
    /\ pc = "num_start"
    /\ bracket_count' = count_style("bracket", count_lines)
    /\ paren_count' = count_style("paren", count_lines)
    /\ bare_count' = count_style("bare", count_lines)
    /\ LET d == detect_style(bracket_count', paren_count', bare_count',
                             args_until_eof)
       IN  /\ numbered_style' = d.numbered_style
           /\ num_count' = d.num_count
    /\ pc' = "num_detected"
    /\ UNCHANGED <<count_lines, STRIP_NUMBERS, args_until_eof,
                   no_numbered_fallback, reextract, local_max_iter, prev_num,
                   iter_num, final_numbered, num_written, out_lines>>
    /\ UNCHANGED <<segVars, doiVars, loadVars, restVars>>

\* the numbered path is taken
numbered_triggered ==
    /\ ~no_numbered_fallback
    /\ num_count >= trigger_threshold(numbered_style, args_until_eof)

\* the script goes on to the author-year path
SkipNumbered ==
    /\ pc = "num_detected"
    /\ ~numbered_triggered
    /\ pc' = "num_skipped"
    /\ UNCHANGED <<segVars, doiVars, numVars, loadVars, restVars>>

\* no re-extraction, or the re-extraction raised: the lines stay
BeginNumbered ==
    /\ pc = "num_detected"
    /\ numbered_triggered
    /\ prev_num' = count_lines
    /\ pc' = "num_pass"
    /\ UNCHANGED <<count_lines, STRIP_NUMBERS, args_until_eof,
                   no_numbered_fallback, reextract, local_max_iter,
                   bracket_count, paren_count, bare_count, numbered_style,
                   num_count, iter_num, final_numbered, num_written, out_lines>>
    /\ UNCHANGED <<segVars, doiVars, loadVars, restVars>>

\* the text is extracted again with pymupdf and the style detected again
ReExtract ==
    /\ pc = "num_detected"
    /\ numbered_triggered
    /\ reextract
    /\ count_lines' \in ReDocs
    /\ bracket_count' = count_style("bracket", count_lines')
    /\ paren_count' = count_style("paren", count_lines')
    /\ bare_count' = count_style("bare", count_lines')
    /\ LET d == redetect_style([numbered_style |-> numbered_style,
                                num_count |-> num_count],
                               bracket_count', paren_count', bare_count',
                               args_until_eof)
       IN  /\ numbered_style' = d.numbered_style
           /\ num_count' = d.num_count
    /\ prev_num' = count_lines'
    /\ pc' = "num_pass"
    /\ UNCHANGED <<STRIP_NUMBERS, args_until_eof, no_numbered_fallback,
                   reextract, local_max_iter, iter_num, final_numbered,
                   num_written, out_lines>>
    /\ UNCHANGED <<segVars, doiVars, loadVars, restVars>>

\* one turn of the `while True` loop around one_numbered_pass
NumberedPass ==
    /\ pc = "num_pass"
    /\ iter_num' = iter_num + 1
    /\ LET new_num == one_numbered_pass(prev_num, numbered_style)
           exit == loop_exit(new_num, prev_num, iter_num', local_max_iter)
       IN  IF exit = "continue"
           THEN /\ prev_num' = new_num
                /\ UNCHANGED <<final_numbered, pc>>
           ELSE /\ final_numbered' = new_num
                /\ pc' = "num_joined"
                /\ UNCHANGED prev_num
    /\ UNCHANGED <<count_lines, STRIP_NUMBERS, args_until_eof,
                   no_numbered_fallback, reextract, local_max_iter,
                   bracket_count, paren_count, bare_count, numbered_style,
                   num_count, num_written, out_lines>>
    /\ UNCHANGED <<segVars, doiVars, loadVars, restVars>>

\* the output file of the numbered path
WriteNumbered ==
    /\ pc = "num_joined"
    /\ num_written' =
           [i \in 1..Len(final_numbered) |->
               IF STRIP_NUMBERS
               THEN number_prefix_sub(numbered_style, final_numbered[i])
               ELSE final_numbered[i]]
    /\ pc' = "num_written"
    /\ UNCHANGED <<count_lines, STRIP_NUMBERS, args_until_eof,
                   no_numbered_fallback, reextract, local_max_iter,
                   bracket_count, paren_count, bare_count, numbered_style,
                   num_count, prev_num, iter_num, final_numbered, out_lines>>
    /\ UNCHANGED <<segVars, doiVars, loadVars, restVars>>

\* ratio > 0.5 over the lines of the output file
mostly_standalone ==
    /\ Len(num_written) > 0
    /\ 2 * standalone_count(numbered_style, num_written) > Len(num_written)

\* more than half of the lines are numbers alone: the lines without their
\* prefix go to doiref_nonapa.py
NumberedFallback ==
    /\ pc = "num_written"
    /\ mostly_standalone
    /\ out_lines' = [i \in 1..Len(num_written) |->
                        number_prefix_sub(numbered_style, num_written[i])]
    /\ pc' = "num_nonapa"
    /\ UNCHANGED <<count_lines, STRIP_NUMBERS, args_until_eof,
                   no_numbered_fallback, reextract, local_max_iter,
                   bracket_count, paren_count, bare_count, numbered_style,
                   num_count, prev_num, iter_num, final_numbered, num_written>>
    /\ UNCHANGED <<segVars, doiVars, loadVars, restVars>>

\* sys.exit(0) with the output file as written
NumberedExit ==
    /\ pc = "num_written"
    /\ ~mostly_standalone
    /\ pc' = "num_exit"
    /\ UNCHANGED <<segVars, doiVars, numVars, loadVars, restVars>>

NumNext ==
    \/ DetectStyle
    \/ SkipNumbered
    \/ BeginNumbered
    \/ ReExtract
    \/ NumberedPass
    \/ WriteNumbered
    \/ NumberedFallback
    \/ NumberedExit

NumSpec == NumInit /\ [][NumNext]_vars

(* ------------- load_and_preprocess of parsing_helpers.py -------------- *)
\* A line of the full text is one of: a references heading ("References"),
\* a reference line, a blank line, a stop token ("Appendix"), a page number
\* ("123").  No line ends with a hyphen-like character, so that
\* hyphen_join_fixed_point returns the lines it is given.  A stop token may
\* be followed by one period ("Appendix.") or by two ("Appendix..").
LineKinds == {"heading", "ref", "blank", "stop", "stop.", "stop..", "page"}

\* s_norm in stop_tokens alone: the line is the stop token itself
is_stop_exact(kind) == kind = "stop"

\* parsing_helpers.py 1817-1819: s_norm or s_norm.rstrip('.') is a stop
\* token; rstrip removes every trailing period
is_stop(kind) == kind \in {"stop", "stop.", "stop.."}

\* characters that are no white space
non_blank(kind) ==
    CASE kind = "heading" -> 10
      [] kind = "ref" -> RefChars
      [] kind = "stop" -> 8
      [] kind = "stop." -> 9
      [] kind = "stop.." -> 10
      [] kind = "page" -> 3
      [] OTHER -> 0

\* re.search(references_heading_re, text, re.MULTILINE | re.IGNORECASE)
has_heading(text) == \E i \in 1..Len(text) : text[i] = "heading"

match_line(text) == Min({i \in 1..Len(text) : text[i] = "heading"})

\* non-blank characters of the lines j .. h-1
RECURSIVE chars_before(_, _, _)
chars_before(text, j, h) ==
    IF j >= h THEN 0 ELSE non_blank(text[j]) + chars_before(text, j + 1, h)

\* the line start_idx ends up in
start_line(text, ctx) ==
    LET h == match_line(text)
        enough == {j \in 1..(h - 1) : chars_before(text, j, h) >= ctx}
    IN  IF ctx <= 0
        THEN \* start_idx = match.end(): the trailing \s* of the heading
             \* pattern runs into a blank line that follows
             IF h < Len(text) /\ text[h + 1] = "blank" THEN h + 1 ELSE h
        ELSE IF enough # {} THEN Max(enough) ELSE h

\* extract_references_section with stop_at_allcaps=False; ctx = 0 stands for
\* pymupdf_context_chars=None
extract_references_section(text, require_heading, ctx) ==
    IF ~has_heading(text)
    THEN IF require_heading
         THEN [raised |-> TRUE, section |-> <<>>]
         ELSE [raised |-> FALSE, section |-> text]
    ELSE [raised |-> FALSE,
          section |-> SubSeq(text, start_line(text, ctx), Len(text))]

\* the loop of load_and_preprocess over raw_lines: blank lines are skipped, a
\* stop token ends the loop unless until_eof (it is then a line like any
\* other), page numbers are skipped
normalize_lines(raw_lines, eof) ==
    LET stops == {i \in 1..Len(raw_lines) : is_stop(raw_lines[i])}
        last == IF eof \/ stops = {} THEN Len(raw_lines) ELSE Min(stops) - 1
    IN  SelectSeq(SubSeq(raw_lines, 1, last),
                  LAMBDA k : k \notin {"blank", "page"})

LoadTexts == UNION {[1..n -> LineKinds] : n \in 1..MaxTextLines}

\* the state before get_full_text
LoadInit ==
    /\ pc = "load_start"
    /\ use_txt_file \in BOOLEAN
    /\ until_eof \in BOOLEAN
    /\ extractor \in {"pdfminer", "pymupdf"}
    /\ full_text = <<>> /\ raised = FALSE
    /\ references_text = <<>> /\ norm_lines = <<>>
    /\ SegIdle /\ DoiIdle /\ NumIdle /\ RestIdle

\* get_full_text returns the text of the document
GetFullText ==
    /\ pc = "load_start"
    /\ full_text' \in LoadTexts
    /\ pc' = "load_text"
    /\ UNCHANGED <<use_txt_file, until_eof, extractor, raised,
                   references_text, norm_lines>>
    /\ UNCHANGED <<segVars, doiVars, numVars, restVars>>

\* get_full_text raises ValueError: doiref.py prints it and raises again
GetFullTextFails ==
    /\ pc = "load_start"
    /\ pc' = "load_aborted"
    /\ UNCHANGED <<segVars, doiVars, numVars, loadVars, restVars>>

\* the call of extract_references_section inside load_and_preprocess
ExtractReferencesSection ==
    /\ pc = "load_text"
    /\ LET r == extract_references_section(
                    full_text, ~use_txt_file,
                    IF extractor = "pymupdf" THEN PYMUPDF_CONTEXT_CHARS ELSE 0)
       IN  /\ raised' = r.raised
           /\ references_text' = r.section
    /\ pc' = "load_extracted"
    /\ UNCHANGED <<full_text, use_txt_file, until_eof, extractor, norm_lines>>
    /\ UNCHANGED <<segVars, doiVars, numVars, restVars>>

\* `except ValueError:` of load_and_preprocess: references_text = full_text
HeadingNotFound ==
    /\ pc = "load_extracted"
    /\ raised
    /\ references_text' = full_text
    /\ pc' = "load_section"
    /\ UNCHANGED <<full_text, use_txt_file, until_eof, extractor, raised,
                   norm_lines>>
    /\ UNCHANGED <<segVars, doiVars, numVars, restVars>>

\* no exception: the section is the one extract_references_section returned
SectionFound ==
    /\ pc = "load_extracted"
    /\ ~raised
    /\ pc' = "load_section"
    /\ UNCHANGED <<segVars, doiVars, numVars, loadVars, restVars>>

\* the rest of load_and_preprocess: the normalized lines it returns
NormalizeLines ==
    /\ pc = "load_section"
    /\ norm_lines' = normalize_lines(references_text, until_eof)
    /\ pc' = "load_done"
    /\ UNCHANGED <<full_text, use_txt_file, until_eof, extractor, raised,
                   references_text>>
    /\ UNCHANGED <<segVars, doiVars, numVars, restVars>>

LoadNext ==
    \/ GetFullText
    \/ GetFullTextFails
    \/ ExtractReferencesSection
    \/ HeadingNotFound
    \/ SectionFound
    \/ NormalizeLines

LoadSpec == LoadInit /\ [][LoadNext]_vars

(* ----------------- the run of doiref.py from end to end ---------------- *)
\* The text is abstract here: a buffer is the text it was made from and the
\* sequence of the passes that have been applied to it.

\* the passes of the author-year path in the order of the script; `guarded`
\* says whether the pass sits in a try / except of its own
AuthorYearPasses ==
    << [name |-> "merged_start_paren", guarded |-> FALSE],
       [name |-> "year_end_pre_append", guarded |-> FALSE],
       [name |-> "single_token_join", guarded |-> TRUE],
       [name |-> "merged_initials", guarded |-> TRUE],
       [name |-> "merged_amp", guarded |-> TRUE],
       [name |-> "build_author_patterns_editor", guarded |-> TRUE],
       [name |-> "merged_amp_start", guarded |-> TRUE],
       [name |-> "editor_loop", guarded |-> FALSE],
       [name |-> "build_author_patterns", guarded |-> FALSE],
       [name |-> "one_pass_apply", guarded |-> FALSE],
       [name |-> "append_nonyear_pass", guarded |-> FALSE],
       [name |-> "split_trailer_fragments", guarded |-> TRUE],
       [name |-> "move_doi_to_end", guarded |-> FALSE] >>

\* the index of the pass after which the output file is written first
FirstWriteAfter ==
    CHOOSE i \in 1..Len(AuthorYearPasses) :
        AuthorYearPasses[i].name = "one_pass_apply"

\* the passes of load_and_preprocess and of the numbered path
HyphenPass == "hyphen_join_fixed_point"

NumberedPassName == "one_numbered_pass"

\* every pass that can raise
PassNames ==
    {AuthorYearPasses[i].name : i \in 1..Len(AuthorYearPasses)}
        \cup {HyphenPass, NumberedPassName}

\* the passes that build patterns only and leave the buffer alone
PatternPasses == {"build_author_patterns_editor", "build_author_patterns"}

\* the passes that decide where a reference starts
SegmentationPasses ==
    (PassNames \ (PatternPasses \cup {HyphenPass, "move_doi_to_end"}))
        \cup {"nonapa_segmenter"}

\* buffer b after pass p has been applied to it
applied(b, p) == [b EXCEPT !.stages = Append(@, p)]

\* which extractor a call of get_full_text uses
extractor_of(use_txt, ext) == IF use_txt THEN "txt" ELSE ext

\* get_full_text that falls back on the other backend
get_full_text_fallback(use_txt, ext, ok) ==
    LET other == IF ext = "pdfminer" THEN "pymupdf" ELSE "pdfminer"
    IN  IF use_txt
        THEN [by |-> "txt", ok |-> ok["txt"]]
        ELSE IF ok[ext] THEN [by |-> ext, ok |-> TRUE]
        ELSE [by |-> other, ok |-> ok[other]]

\* get_full_text: the requested extractor only; ok = FALSE stands for the
\* exception it raises
get_full_text(use_txt, ext, ok) ==
    [by |-> extractor_of(use_txt, ext), ok |-> ok[extractor_of(use_txt, ext)]]

\* a failed call that never stops the run
extraction_failure_absorbed(call) == "continue"

\* what doiref.py does with the exception of a call of get_full_text:
\* `raise` for the first call, print and go on for the re-extraction
extraction_failure(call) == IF call = "initial" THEN "raise" ELSE "continue"

\* a re-extraction whatever the extractor and the input are
reextract_always(ext, use_txt) == TRUE

\* `if args.extractor == 'pdfminer' and not use_txt_file`
reextract_wanted(ext, use_txt) == ext = "pdfminer" /\ ~use_txt

\* debug_path('doiref_1_raw_lines.txt') with the debug subsystem disabled: the
\* mapping is empty and the directory is searched for a file of that name
debug_path(dir) ==
    CASE dir = "unavailable" -> "raises"
      [] dir = "left_raw_lines" -> "found"
      [] OTHER -> "not_found"

\* the file of an earlier run
EarlierRun == [text |-> "earlier_run", stages |-> <<>>]

Documents ==
    {d \in [empty : BOOLEAN, numbered : BOOLEAN, standalone : BOOLEAN,
            renumbered : BOOLEAN] :
        /\ d.numbered => ~d.empty
        /\ d.standalone => d.numbered
        /\ d.renumbered => d.numbered}

\* the state when the script starts
RunInit ==
    /\ pc = "run_start"
    /\ script \in {"doiref.py", "doiref_nonapa.py"}
    /\ args_extractor \in {"pdfminer", "pymupdf"}
    /\ txt_mode \in BOOLEAN
    /\ backend_ok \in [{"txt", "pdfminer", "pymupdf"} -> BOOLEAN]
    /\ document \in Documents
    /\ fault \in PassNames \cup {"none"}
    /\ debug_dir \in {"unavailable", "empty", "left_raw_lines"}
    /\ artifact \in {NoText, EarlierRun}
    /\ get_calls = <<>>
    /\ run_lines = NoText /\ stripped = NoText
    /\ nonapa_lines = NoText /\ nonapa_artifact = NoText /\ pass_idx = 0
    /\ NotRunIdle

\* the first call of get_full_text; its ValueError is printed and raised again
InitialGetFullText ==
    /\ pc = "run_start"
    /\ LET r == get_full_text(txt_mode, args_extractor, backend_ok)
       IN  /\ get_calls' = Append(get_calls, r)
           /\ run_lines' = IF r.ok THEN [text |-> r.by, stages |-> <<>>]
                           ELSE run_lines
           /\ pc' = IF r.ok \/ extraction_failure("initial") = "continue"
                    THEN "run_text" ELSE "run_aborted"
    /\ UNCHANGED script
    /\ UNCHANGED <<args_extractor, txt_mode, backend_ok, document, fault,
                   debug_dir, artifact, stripped, nonapa_lines,
                   nonapa_artifact, pass_idx>>
    /\ UNCHANGED notRunVars

\* the lines load_and_preprocess returns for the text it is given: normalized,
\* and hyphen-joined unless hyphen_join_fixed_point raised
preprocessed(text_by) ==
    LET n == applied([text |-> text_by, stages |-> <<>>], "normalize_lines")
    IN  IF fault = HyphenPass THEN n ELSE applied(n, HyphenPass)

\* load_and_preprocess(preloaded_full_text=full_text): a missing heading is
\* absorbed inside, the whole text is the section then
RunLoadAndPreprocess ==
    /\ pc = "run_text"
    /\ script = "doiref.py"
    /\ run_lines' = preprocessed(run_lines.text)
    /\ pc' = "run_loaded"
    /\ UNCHANGED script
    /\ UNCHANGED <<args_extractor, txt_mode, backend_ok, document, fault,
                   debug_dir, get_calls, artifact, stripped, nonapa_lines,
                   nonapa_artifact, pass_idx>>
    /\ UNCHANGED notRunVars

\* `if num_count >= trigger_threshold`: the numbered path or the author-year one
NumberedDetection ==
    /\ pc = "run_loaded"
    /\ pc' = IF document.numbered THEN "run_numbered" ELSE "run_authoryear"
    /\ UNCHANGED <<runVars, notRunVars>>

\* the re-extraction with pymupdf; any exception is printed and the script
\* goes on with the lines of the first extraction
RunReExtract ==
    /\ pc = "run_numbered"
    /\ reextract_wanted(args_extractor, txt_mode)
    /\ LET r == get_full_text(FALSE, "pymupdf", backend_ok)
       IN  /\ get_calls' = Append(get_calls, r)
           /\ run_lines' = IF r.ok THEN preprocessed(r.by) ELSE run_lines
           /\ pc' = IF r.ok \/ extraction_failure("reextract") = "continue"
                    THEN "run_numloop" ELSE "run_aborted"
    /\ UNCHANGED script
    /\ UNCHANGED <<args_extractor, txt_mode, backend_ok, document, fault,
                   debug_dir, artifact, stripped, nonapa_lines,
                   nonapa_artifact, pass_idx>>
    /\ UNCHANGED notRunVars

\* no re-extraction: pymupdf was the extractor already, or the input is TXT
RunKeepExtraction ==
    /\ pc = "run_numbered"
    /\ ~reextract_wanted(args_extractor, txt_mode)
    /\ pc' = "run_numloop"
    /\ UNCHANGED <<runVars, notRunVars>>

\* the text of the buffer comes from the re-extraction
reextracted == Len(get_calls) = 2 /\ get_calls[2].ok

\* the second `if num_count >= trigger_threshold`, after the re-detection
still_numbered == reextracted => document.renumbered

\* the `while True` loop around one_numbered_pass: no try / except around it.
\* Its result is final_numbered, `lines` stays as it is.
RunNumberedLoop ==
    /\ pc = "run_numloop"
    /\ pc' = IF fault = NumberedPassName THEN "run_crashed"
             ELSE IF still_numbered THEN "run_numjoined"
             ELSE "run_authoryear"
    /\ UNCHANGED <<runVars, notRunVars>>

\* the output file of the numbered path: final_numbered as it is
RunWriteNumbered ==
    /\ pc = "run_numjoined"
    /\ artifact' = applied(run_lines, NumberedPassName)
    /\ pc' = "run_numwritten"
    /\ UNCHANGED script
    /\ UNCHANGED <<args_extractor, txt_mode, backend_ok, document, fault,
                   debug_dir, get_calls, run_lines, stripped, nonapa_lines,
                   nonapa_artifact, pass_idx>>
    /\ UNCHANGED notRunVars

\* what doiref_nonapa.py makes of the TXT file f: its `lines` are the
\* pre_hyphen_lines of load_and_preprocess
nonapa_run(f) ==
    [text |-> f.text,
     stages |-> f.stages \o <<"normalize_lines", "nonapa_segmenter",
                             "move_doi_to_end">>]

\* doiref_nonapa.py run on its own, from its load_and_preprocess to the write
\* of its output file
RunNonapa ==
    /\ pc = "run_text"
    /\ script = "doiref_nonapa.py"
    /\ nonapa_lines' = nonapa_run(run_lines)
    /\ nonapa_artifact' = applied(nonapa_lines', "fix_diaeresis_errors")
    /\ pc' = "run_end"
    /\ UNCHANGED script
    /\ UNCHANGED <<args_extractor, txt_mode, backend_ok, document, fault,
                   debug_dir, get_calls, run_lines, artifact, stripped,
                   pass_idx>>
    /\ UNCHANGED notRunVars

\* more than half of the lines are numbers alone: the lines, read from the
\* debug file if there is one and from the output file otherwise, go to
\* doiref_nonapa.py; then sys.exit(0)
RunNumberedFallback ==
    /\ pc = "run_numwritten"
    /\ document.standalone
    /\ IF debug_path(debug_dir) = "raises"
       THEN /\ pc' = "run_crashed"
            /\ UNCHANGED <<stripped, nonapa_lines, nonapa_artifact>>
       ELSE /\ stripped' = IF debug_path(debug_dir) = "found"
                           THEN EarlierRun ELSE artifact
            /\ nonapa_lines' = nonapa_run(stripped')
            /\ nonapa_artifact' = applied(nonapa_lines', "fix_diaeresis_errors")
            /\ pc' = "run_exit"
    /\ UNCHANGED script
    /\ UNCHANGED <<args_extractor, txt_mode, backend_ok, document, fault,
                   debug_dir, get_calls, run_lines, artifact, pass_idx>>
    /\ UNCHANGED notRunVars

\* sys.exit(0) after the numbered output
RunNumberedExit ==
    /\ pc = "run_numwritten"
    /\ ~document.standalone
    /\ pc' = "run_exit"
    /\ UNCHANGED <<runVars, notRunVars>>

\* `if lines:` is false: the script ends, nothing is written
EmptyLines ==
    /\ pc = "run_authoryear"
    /\ document.empty
    /\ pc' = "run_end"
    /\ UNCHANGED <<runVars, notRunVars>>

\* the next pass of the author-year path is due
pass_due ==
    /\ ~document.empty
    /\ \/ pc = "run_authoryear" /\ pass_idx < FirstWriteAfter
       \/ pc = "run_first_written" /\ pass_idx < Len(AuthorYearPasses)

\* one pass of the author-year path: it rewrites `lines`; if it raises, a
\* guarded pass leaves `lines` as they were and an unguarded one ends the run
AuthorYearPass ==
    /\ pass_due
    /\ LET p == AuthorYearPasses[pass_idx + 1]
       IN  IF fault = p.name /\ ~p.guarded
           THEN /\ pc' = "run_crashed"
                /\ UNCHANGED <<run_lines, pass_idx>>
           ELSE /\ run_lines' = IF fault = p.name \/ p.name \in PatternPasses
                                THEN run_lines
                                ELSE applied(run_lines, p.name)
                /\ pass_idx' = pass_idx + 1
                /\ UNCHANGED pc
    /\ UNCHANGED script
    /\ UNCHANGED <<args_extractor, txt_mode, backend_ok, document, fault,
                   debug_dir, get_calls, artifact, stripped, nonapa_lines,
                   nonapa_artifact>>
    /\ UNCHANGED notRunVars

\* the output file is written with final_refs, before the DOI pass
FirstWrite ==
    /\ pc = "run_authoryear"
    /\ ~document.empty
    /\ pass_idx = FirstWriteAfter
    /\ artifact' = run_lines
    /\ pc' = "run_first_written"
    /\ UNCHANGED script
    /\ UNCHANGED <<args_extractor, txt_mode, backend_ok, document, fault,
                   debug_dir, get_calls, run_lines, stripped, nonapa_lines,
                   nonapa_artifact, pass_idx>>
    /\ UNCHANGED notRunVars

\* the output file is written again, each line through fix_diaeresis_errors
FinalWrite ==
    /\ pc = "run_first_written"
    /\ pass_idx = Len(AuthorYearPasses)
    /\ artifact' = applied(run_lines, "fix_diaeresis_errors")
    /\ pc' = "run_end"
    /\ UNCHANGED script
    /\ UNCHANGED <<args_extractor, txt_mode, backend_ok, document, fault,
                   debug_dir, get_calls, run_lines, stripped, nonapa_lines,
                   nonapa_artifact, pass_idx>>
    /\ UNCHANGED notRunVars

RunNext ==
    \/ InitialGetFullText
    \/ RunLoadAndPreprocess
    \/ RunNonapa
    \/ NumberedDetection
    \/ RunReExtract
    \/ RunKeepExtraction
    \/ RunNumberedLoop
    \/ RunWriteNumbered
    \/ RunNumberedFallback
    \/ RunNumberedExit
    \/ EmptyLines
    \/ AuthorYearPass
    \/ FirstWrite
    \/ FinalWrite

RunSpec == RunInit /\ [][RunNext]_vars

(* ------------- hyphen_join_fixed_point of parsing_helpers.py ---------- *)

\* A physical line is named by how it starts and ends; a buffer line is the
\* sequence of the physical lines that were concatenated into it.
PhysicalLines ==
    {"blank", "Inter-", "soft_hyphen", "dash", "under_", "url/", "Author",
     "word"}

\* the last character of the right-stripped physical line
end_char(piece) ==
    CASE piece = "Inter-" -> "hyphen"
      [] piece = "soft_hyphen" -> "soft_hyphen"
      [] piece = "dash" -> "dash"
      [] piece = "under_" -> "underscore"
      [] piece = "url/" -> "slash"
      [] OTHER -> "other"

\* hyphen_chars: hyphen-minus, U+00AD, U+2010 to U+2015, U+2212, underscore
hyphen_chars == {"hyphen", "soft_hyphen", "dash", "underscore"}

\* `ln.strip()` is empty, and is_blank(t)
hyph_is_blank(ln) == ln = <<"blank">>

\* s[-1] of s = curr.rstrip()
last_char(ln) == IF hyph_is_blank(ln) THEN "none" ELSE end_char(Last(ln))

\* author_start_like_re.match(next_line.lstrip())
hyph_author_start(ln) == ln[1] = "Author"

\* the first index from `from` on that holds a non-blank line, or one past
\* the end
hyph_lookahead(buf, from) ==
    IF \E k \in from..Len(buf) : ~hyph_is_blank(buf[k])
        THEN Min({k \in from..Len(buf) : ~hyph_is_blank(buf[k])})
        ELSE Len(buf) + 1

\* the inner `while i < len(prev)` loop from index i with `out` so far
RECURSIVE hyphen_pass_from(_, _, _)
hyphen_pass_from(buf, i, acc) ==
    IF i > Len(buf) THEN acc
    ELSE IF last_char(buf[i]) \in hyphen_chars
        THEN IF hyph_lookahead(buf, i + 1) <= Len(buf)
            THEN IF /\ last_char(buf[i]) = "slash"
                    /\ hyph_author_start(buf[hyph_lookahead(buf, i + 1)])
                THEN hyphen_pass_from(buf, i + 1, Append(acc, buf[i]))
                ELSE hyphen_pass_from(buf, hyph_lookahead(buf, i + 1) + 1,
                         Append(acc,
                                buf[i] \o buf[hyph_lookahead(buf, i + 1)]))
            ELSE hyphen_pass_from(buf, i + 1, Append(acc, buf[i]))
        ELSE hyphen_pass_from(buf, i + 1, Append(acc, buf[i]))

\* one iteration of `while True`: the `out` it computes from `prev`
hyphen_pass(buf) == hyphen_pass_from(buf, 1, <<>>)

\* a loop that returns after its first pass whatever the pass did
hyphen_exit_after_first_pass(res, buf, n, cap) == TRUE

\* `if out == prev or iter_n >= max_iter: return out`
hyphen_exit(res, buf, n, cap) == res = buf \/ n >= cap

\* max_iter = int(os.environ.get(max_iter_env, '8')), 8 when it does not parse
HyphCaps == {0, 1, 2, HYPHEN_MAX_ITER_DEFAULT}

HyphInit ==
    /\ pc = "hyph_start"
    /\ hyph_input \in
           UNION {[1..n -> {<<p>> : p \in PhysicalLines}] : n \in 0..MaxHyphLines}
    /\ hyph_max_iter \in HyphCaps
    /\ hyph_prev = <<>> /\ hyph_iter_n = 0
    /\ hyph_returned = <<>> /\ hyph_exit = "none"
    /\ NotHyphIdle

\* `if not input_lines: return []`
HyphEmptyInput ==
    /\ pc = "hyph_start"
    /\ hyph_input = <<>>
    /\ pc' = "hyph_returned"
    /\ hyph_returned' = <<>>
    /\ hyph_exit' = "empty"
    /\ UNCHANGED <<hyph_input, hyph_max_iter, hyph_prev, hyph_iter_n>>
    /\ UNCHANGED notHyphVars

\* prev = [ln for ln in input_lines if ln.strip()]; iter_n = 0
HyphStart ==
    /\ pc = "hyph_start"
    /\ hyph_input # <<>>
    /\ pc' = "hyph_loop"
    /\ hyph_prev' = SelectSeq(hyph_input, LAMBDA ln : ~hyph_is_blank(ln))
    /\ hyph_iter_n' = 0
    /\ UNCHANGED <<hyph_input, hyph_max_iter, hyph_returned, hyph_exit>>
    /\ UNCHANGED notHyphVars

\* an iteration of `while True` that ends in `prev = out`
HyphIterate ==
    /\ pc = "hyph_loop"
    /\ ~hyphen_exit(hyphen_pass(hyph_prev), hyph_prev, hyph_iter_n + 1,
                    hyph_max_iter)
    /\ hyph_iter_n' = hyph_iter_n + 1
    /\ hyph_prev' = hyphen_pass(hyph_prev)
    /\ UNCHANGED <<pc, hyph_input, hyph_max_iter, hyph_returned, hyph_exit>>
    /\ UNCHANGED notHyphVars

\* an iteration of `while True` that ends in `return out`
HyphReturn ==
    /\ pc = "hyph_loop"
    /\ hyphen_exit(hyphen_pass(hyph_prev), hyph_prev, hyph_iter_n + 1,
                   hyph_max_iter)
    /\ pc' = "hyph_returned"
    /\ hyph_iter_n' = hyph_iter_n + 1
    /\ hyph_returned' = hyphen_pass(hyph_prev)
    /\ hyph_exit' = IF hyphen_pass(hyph_prev) = hyph_prev
                        THEN "unchanged" ELSE "cap"
    /\ UNCHANGED <<hyph_input, hyph_max_iter, hyph_prev>>
    /\ UNCHANGED notHyphVars

HyphNext == HyphEmptyInput \/ HyphStart \/ HyphIterate \/ HyphReturn

HyphSpec == HyphInit /\ [][HyphNext]_vars

\* the call is one sequential computation: it keeps taking steps
HyphFairSpec == HyphSpec /\ WF_vars(HyphNext)

(* --------------------- the debug store of debug_utils.py -------------- *)

\* _mapping = {}
EmptyMapping == [b \in BaseNames |-> NoCanonical]

\* `base in _mapping`
in_mapping(m, b) == m[b] # NoCanonical

\* the base names of a mapping
mapped_names(m) == {b \in BaseNames : in_mapping(m, b)}

\* a lock that lets every thread in at once
lock_never_waits(holder, t) == TRUE

\* `with _lock:` the thread goes on when no thread holds the lock
lock_acquirable(holder, t) == holder = "free"

\* _load_state: nothing when the state is loaded; {} and 0 when the debug
\* subsystem is disabled or the files are missing; the files otherwise
load_state(enabled, loaded, m, c, files) ==
    IF loaded THEN [mapping |-> m, counter |-> c]
    ELSE IF enabled /\ files.present
        THEN [mapping |-> files.map, counter |-> files.counter]
        ELSE [mapping |-> EmptyMapping, counter |-> 0]

\* _save_state: both files are written when the debug subsystem is enabled
save_state(enabled, files, m, c) ==
    IF enabled THEN [present |-> TRUE, map |-> m, counter |-> c] ELSE files

\* canonical = f"{seq}_{base}", f"{seq}_{i:02d}_{base}" while the file exists
unique_canonical(n, b, files) ==
    [seq |-> n,
     dup |-> Min({i \in 0..Cardinality(files) :
                     [seq |-> n, dup |-> i, base |-> b] \notin files}),
     base |-> b]

\* the state a process is in after `import debug_utils`: an earlier process
\* has left nothing, or one canonical file with its mapping and counter
PriorMappings ==
    {EmptyMapping,
     [b \in BaseNames |->
         IF b = "a.txt" THEN [seq |-> 1, dup |-> 0, base |-> b]
         ELSE NoCanonical]}

\* the calls a thread can make
DebugCalls ==
    {[fn |-> "write_debug", base |-> b, remove |-> FALSE] : b \in BaseNames}
    \cup {[fn |-> "debug_path", base |-> b, remove |-> FALSE] : b \in BaseNames}
    \cup {[fn |-> "reset_debug_sequence", base |-> "none", remove |-> r] :
              r \in BOOLEAN}

DbgInit ==
    /\ pc = "dbg"
    /\ dbg_enabled \in BOOLEAN
    /\ lock_holder = "free"
    /\ \E prior \in PriorMappings :
          /\ state_files = [present |-> TRUE, map |-> prior,
                            counter |-> Cardinality(mapped_names(prior))]
          /\ dir_files = {prior[b] : b \in mapped_names(prior)}
          /\ state_loaded = dbg_enabled
          /\ dbg_mapping = IF dbg_enabled THEN prior ELSE EmptyMapping
          /\ dbg_counter = IF dbg_enabled
                               THEN Cardinality(mapped_names(prior)) ELSE 0
          /\ handed_out = IF dbg_enabled
                              THEN {[base |-> b, canonical |-> prior[b]] :
                                        b \in mapped_names(prior)}
                              ELSE {}
          /\ allocations = IF dbg_enabled
                               THEN Cardinality(mapped_names(prior)) ELSE 0
    /\ thread_pc = [t \in Threads |-> "idle"]
    /\ thread_op = [t \in Threads |-> NoOp]
    /\ thread_local = [t \in Threads |-> NoLocal]
    /\ thread_calls = [t \in Threads |-> 0]
    /\ unlocked_access = FALSE
    /\ NotDbgIdle

\* the statement the thread runs next touches _mapping or _counter
touches_state(t) ==
    unlocked_access' = (unlocked_access \/ lock_holder # t)

\* a thread calls write_debug, debug_path or reset_debug_sequence;
\* write_debug and reset_debug_sequence return at once when the debug
\* subsystem is disabled
DbgCall(t) ==
    /\ thread_pc[t] = "idle"
    /\ thread_calls[t] < MaxCalls
    /\ \E call \in DebugCalls :
          /\ thread_op' = [thread_op EXCEPT ![t] = call]
          /\ thread_pc' = [thread_pc EXCEPT ![t] =
                 IF call.fn # "debug_path" /\ ~dbg_enabled
                     THEN "idle" ELSE "lock"]
    /\ thread_calls' = [thread_calls EXCEPT ![t] = @ + 1]
    /\ thread_local' = [thread_local EXCEPT ![t] = NoLocal]
    /\ UNCHANGED <<pc, dbg_enabled, lock_holder, state_loaded, dbg_mapping,
                   dbg_counter, state_files, dir_files, handed_out,
                   allocations, unlocked_access>>
    /\ UNCHANGED notDbgVars

\* `with _lock:` of _alloc_canonical, debug_path and reset_debug_sequence
DbgAcquire(t) ==
    /\ thread_pc[t] = "lock"
    /\ lock_acquirable(lock_holder, t)
    /\ lock_holder' = t
    /\ thread_pc' = [thread_pc EXCEPT ![t] =
           CASE thread_op[t].fn = "write_debug" -> "alloc_load"
             [] thread_op[t].fn = "debug_path" -> "path_load"
             [] OTHER -> "reset_remove"]
    /\ UNCHANGED <<pc, dbg_enabled, state_loaded, dbg_mapping, dbg_counter,
                   state_files, dir_files, thread_op, thread_local,
                   thread_calls, handed_out, allocations, unlocked_access>>
    /\ UNCHANGED notDbgVars

\* _alloc_canonical: _load_state(); if base in _mapping: return _mapping[base]
DbgAllocLoad(t) ==
    /\ thread_pc[t] = "alloc_load"
    /\ LET st == load_state(dbg_enabled, state_loaded, dbg_mapping,
                            dbg_counter, state_files)
           base == thread_op[t].base
       IN  /\ state_loaded' = TRUE
           /\ dbg_mapping' = st.mapping
           /\ dbg_counter' = st.counter
           /\ IF in_mapping(st.mapping, base)
              THEN /\ thread_local' = [thread_local EXCEPT
                          ![t].canonical = st.mapping[base]]
                   /\ handed_out' = handed_out \cup
                          {[base |-> base, canonical |-> st.mapping[base]]}
                   /\ thread_pc' = [thread_pc EXCEPT ![t] = "release"]
              ELSE /\ thread_pc' = [thread_pc EXCEPT ![t] = "alloc_read"]
                   /\ UNCHANGED <<thread_local, handed_out>>
    /\ touches_state(t)
    /\ UNCHANGED <<pc, dbg_enabled, lock_holder, state_files, dir_files,
                   thread_op, thread_calls, allocations>>
    /\ UNCHANGED notDbgVars

\* _counter = (_counter or 0) + 1: the read of _counter
DbgAllocRead(t) ==
    /\ thread_pc[t] = "alloc_read"
    /\ thread_local' = [thread_local EXCEPT ![t].counter = dbg_counter]
    /\ thread_pc' = [thread_pc EXCEPT ![t] = "alloc_incr"]
    /\ touches_state(t)
    /\ UNCHANGED <<pc, dbg_enabled, lock_holder, state_loaded, dbg_mapping,
                   dbg_counter, state_files, dir_files, thread_op,
                   thread_calls, handed_out, allocations>>
    /\ UNCHANGED notDbgVars

\* _counter = (_counter or 0) + 1: the write of _counter
DbgAllocIncr(t) ==
    /\ thread_pc[t] = "alloc_incr"
    /\ dbg_counter' = thread_local[t].counter + 1
    /\ thread_pc' = [thread_pc EXCEPT ![t] = "alloc_store"]
    /\ touches_state(t)
    /\ UNCHANGED <<pc, dbg_enabled, lock_holder, state_loaded, dbg_mapping,
                   state_files, dir_files, thread_op, thread_local,
                   thread_calls, handed_out, allocations>>
    /\ UNCHANGED notDbgVars

\* seq, canonical, the uniqueness loop, _mapping[base] = canonical,
\* _save_state(), return canonical
DbgAllocStore(t) ==
    /\ thread_pc[t] = "alloc_store"
    /\ LET base == thread_op[t].base
           canonical == unique_canonical(dbg_counter, base, dir_files)
       IN  /\ dbg_mapping' = [dbg_mapping EXCEPT ![base] = canonical]
           /\ state_files' = save_state(dbg_enabled, state_files,
                                        dbg_mapping', dbg_counter)
           /\ thread_local' = [thread_local EXCEPT ![t].canonical = canonical]
           /\ handed_out' = handed_out \cup
                  {[base |-> base, canonical |-> canonical]}
    /\ allocations' = allocations + 1
    /\ thread_pc' = [thread_pc EXCEPT ![t] = "release"]
    /\ touches_state(t)
    /\ UNCHANGED <<pc, dbg_enabled, lock_holder, state_loaded, dbg_counter,
                   dir_files, thread_op, thread_calls>>
    /\ UNCHANGED notDbgVars

\* the end of a `with _lock:` block
DbgRelease(t) ==
    /\ thread_pc[t] = "release"
    /\ lock_holder' = "free"
    /\ thread_pc' = [thread_pc EXCEPT ![t] =
           CASE thread_op[t].fn = "write_debug" -> "write_file"
             [] thread_op[t].fn = "debug_path"
                    /\ thread_local[t].canonical = NoCanonical -> "path_scan"
             [] OTHER -> "idle"]
    /\ UNCHANGED <<pc, dbg_enabled, state_loaded, dbg_mapping, dbg_counter,
                   state_files, dir_files, thread_op, thread_local,
                   thread_calls, handed_out, allocations, unlocked_access>>
    /\ UNCHANGED notDbgVars

\* write_debug: the file is written under its canonical name; a failure is
\* caught
DbgWriteFile(t) ==
    /\ thread_pc[t] = "write_file"
    /\ \E file_written \in BOOLEAN :
          dir_files' = IF file_written
                           THEN dir_files \cup {thread_local[t].canonical}
                           ELSE dir_files
    /\ thread_pc' = [thread_pc EXCEPT ![t] = "idle"]
    /\ UNCHANGED <<pc, dbg_enabled, lock_holder, state_loaded, dbg_mapping,
                   dbg_counter, state_files, thread_op, thread_local,
                   thread_calls, handed_out, allocations, unlocked_access>>
    /\ UNCHANGED notDbgVars

\* debug_path: _load_state(); if base in (_mapping or {}): return the path
DbgPathLoad(t) ==
    /\ thread_pc[t] = "path_load"
    /\ LET st == load_state(dbg_enabled, state_loaded, dbg_mapping,
                            dbg_counter, state_files)
           base == thread_op[t].base
       IN  /\ state_loaded' = TRUE
           /\ dbg_mapping' = st.mapping
           /\ dbg_counter' = st.counter
           /\ IF in_mapping(st.mapping, base)
              THEN /\ thread_local' = [thread_local EXCEPT
                          ![t].canonical = st.mapping[base]]
                   /\ handed_out' = handed_out \cup
                          {[base |-> base, canonical |-> st.mapping[base]]}
              ELSE UNCHANGED <<thread_local, handed_out>>
    /\ thread_pc' = [thread_pc EXCEPT ![t] = "release"]
    /\ touches_state(t)
    /\ UNCHANGED <<pc, dbg_enabled, lock_holder, state_files, dir_files,
                   thread_op, thread_calls, allocations>>
    /\ UNCHANGED notDbgVars

\* debug_path: the os.listdir fallback, after the lock is released
DbgPathScan(t) ==
    /\ thread_pc[t] = "path_scan"
    /\ thread_pc' = [thread_pc EXCEPT ![t] = "idle"]
    /\ UNCHANGED <<pc, dbg_enabled, lock_holder, state_loaded, dbg_mapping,
                   dbg_counter, state_files, dir_files, thread_op,
                   thread_local, thread_calls, handed_out, allocations,
                   unlocked_access>>
    /\ UNCHANGED notDbgVars

\* reset_debug_sequence: the state files and, when asked for, the prefixed
\* files are removed
DbgResetRemove(t) ==
    /\ thread_pc[t] = "reset_remove"
    /\ state_files' = [present |-> FALSE, map |-> EmptyMapping, counter |-> 0]
    /\ dir_files' = IF thread_op[t].remove THEN {} ELSE dir_files
    /\ thread_pc' = [thread_pc EXCEPT ![t] = "reset_clear"]
    /\ UNCHANGED <<pc, dbg_enabled, lock_holder, state_loaded, dbg_mapping,
                   dbg_counter, thread_op, thread_local, thread_calls,
                   handed_out, allocations, unlocked_access>>
    /\ UNCHANGED notDbgVars

\* reset_debug_sequence: _mapping = {}; _counter = 0; _save_state()
DbgResetClear(t) ==
    /\ thread_pc[t] = "reset_clear"
    /\ dbg_mapping' = EmptyMapping
    /\ dbg_counter' = 0
    /\ state_loaded' = TRUE
    /\ state_files' = save_state(dbg_enabled, state_files, EmptyMapping, 0)
    /\ handed_out' = {}
    /\ allocations' = 0
    /\ thread_pc' = [thread_pc EXCEPT ![t] = "release"]
    /\ touches_state(t)
    /\ UNCHANGED <<pc, dbg_enabled, lock_holder, dir_files, thread_op,
                   thread_local, thread_calls>>
    /\ UNCHANGED notDbgVars

DbgNext ==
    \E t \in Threads :
        \/ DbgCall(t)
        \/ DbgAcquire(t)
        \/ DbgAllocLoad(t)
        \/ DbgAllocRead(t)
        \/ DbgAllocIncr(t)
        \/ DbgAllocStore(t)
        \/ DbgRelease(t)
        \/ DbgWriteFile(t)
        \/ DbgPathLoad(t)
        \/ DbgPathScan(t)
        \/ DbgResetRemove(t)
        \/ DbgResetClear(t)

DbgSpec == DbgInit /\ [][DbgNext]_vars

(* ------------------ process_references of fix_dashed_refs.py ----------- *)
\* A line is the sequence of its words; its text is the words joined by one
\* blank.

\* the placeholder '---. ' at the start of a line: the word "---." and the
\* blank after it
placeholder == "---."

\* words in which YEAR_PAREN or YEAR_BARE finds a year, at their first
\* character
DashYearTok == {"(2020).", "2021.", "(2022)."}

DashPool ==
    { <<"Smith,", "J.", "(2020).", "Title.">>,
      <<"Smith,", "J.,", "2021.", "Title.">>,
      <<"Jones,", "K.", "Title.">>,
      <<"(2020).", "Title.">>,
      <<"---.", "(2022).", "Other.">>,
      <<"---.", "Other.">>,
      <<"---.">> }

\* stripped.startswith(placeholder)
starts_with_placeholder(ln) == Len(ln) >= 2 /\ ln[1] = placeholder

\* re.sub(r',\s*$', '', prefix) on the last word of the prefix
strip_trailing_comma(w) ==
    CASE w = "Smith," -> "Smith"
      [] w = "Jones," -> "Jones"
      [] w = "J.," -> "J."
      [] OTHER -> w

\* extract_author_prefix: the words before the first year, the trailing
\* comma of the last one removed; empty when the line holds no year
extract_author_prefix(ln) ==
    IF ~HasTok(ln, DashYearTok) THEN <<>>
    ELSE LET y == Min({k \in 1..Len(ln) : ln[k] \in DashYearTok})
         IN  IF y = 1 THEN <<>>
             ELSE Append(SubSeq(ln, 1, y - 2), strip_trailing_comma(ln[y - 1]))

DashInit ==
    /\ pc = "dash_loop"
    /\ dash_input \in UNION {[1..n -> DashPool] : n \in 1..MaxDashLines}
    /\ dash_result = <<>>
    /\ last_author_prefix = <<>>
    /\ NotDashIdle

\* `for line in lines`, a line that starts with the placeholder: it gets
\* the remembered prefix, or is kept when nothing is remembered
DashedLine ==
    /\ pc = "dash_loop"
    /\ Len(dash_result) < Len(dash_input)
    /\ LET ln == dash_input[Len(dash_result) + 1]
       IN  /\ starts_with_placeholder(ln)
           /\ dash_result' = Append(dash_result,
                  IF last_author_prefix # <<>>
                      THEN last_author_prefix \o SubSeq(ln, 2, Len(ln))
                      ELSE ln)
    /\ UNCHANGED <<pc, dash_input, last_author_prefix>>
    /\ UNCHANGED notDashVars

\* `for line in lines`, any other line: its prefix is remembered when it is
\* not empty, the line is kept
PlainLine ==
    /\ pc = "dash_loop"
    /\ Len(dash_result) < Len(dash_input)
    /\ LET ln == dash_input[Len(dash_result) + 1]
       IN  /\ ~starts_with_placeholder(ln)
           /\ last_author_prefix' =
                  IF extract_author_prefix(ln) # <<>>
                      THEN extract_author_prefix(ln)
                      ELSE last_author_prefix
           /\ dash_result' = Append(dash_result, ln)
    /\ UNCHANGED <<pc, dash_input>>
    /\ UNCHANGED notDashVars

\* return result
DashReturn ==
    /\ pc = "dash_loop"
    /\ Len(dash_result) = Len(dash_input)
    /\ pc' = "dash_done"
    /\ UNCHANGED dashVars
    /\ UNCHANGED notDashVars

DashNext == DashedLine \/ PlainLine \/ DashReturn

DashSpec == DashInit /\ [][DashNext]_vars

(* --------------- the trailer split of both style families ------------- *)
\* doiref_nonapa.py: split_trailer_fragments(..., min_years=0)
nonapa_min_years == 0

\* the fragments post-split may meet: with and without a "]." before an
\* author start, with zero, one and two parenthesized years
SplitPool ==
    { <<"Title", "(2020)", "thesis].", "Smith,", "J.", "(2020)", "Title">>,
      <<"thesis].", "Smith,", "J.", "(2020)", "Title">>,
      <<"Title", "thesis].", "Smith,", "J.", "Title">>,
      <<"Title", "(2020)", "thesis].", "Title", "(2020)">>,
      <<"Title", "(2020)", "Title", "(2020)", "thesis].">>,
      <<"thesis].", "Title", "(2020)", "thesis].", "Smith,", "J.", "(2020)">>,
      <<"Smith,", "J.", "(2020)", "Title", "(2020)">>,
      <<"Title", "of", "paper.">> }

\* min_years of the call made by the script of a style family
family_min_years(family) ==
    IF family = "doiref.py" THEN min_years ELSE nonapa_min_years

\* parsing_helpers.py 1441-1468: the loop over refs
RECURSIVE split_trailer_fragments(_, _, _, _)
split_trailer_fragments(refs, n, i, out) ==
    IF i > Len(refs) THEN out
    ELSE split_trailer_fragments(refs, n, i + 1,
                                 out \o split_trailer_fragment(refs[i], n))

\* the buffer handed to the post-split of one of the two scripts
SplitInit ==
    /\ pc = "split_start"
    /\ split_family \in {"doiref.py", "doiref_nonapa.py"}
    /\ split_refs \in UNION {[1..n -> SplitPool] : n \in 1..MaxSplitRefs}
    /\ split_out = <<>>
    /\ NotSplitIdle

\* doiref.py 1247-1259: every fragment goes through the helper, min_years
\* left at its default
ApaPostSplit ==
    /\ pc = "split_start"
    /\ split_family = "doiref.py"
    /\ split_out' = split_trailer_fragments(split_refs, min_years, 1, <<>>)
    /\ pc' = "split_done"
    /\ UNCHANGED <<split_family, split_refs>>
    /\ UNCHANGED notSplitVars

\* doiref_nonapa.py 1194-1202: the helper is called with min_years=0
NonapaPostSplit ==
    /\ pc = "split_start"
    /\ split_family = "doiref_nonapa.py"
    /\ split_out' = split_trailer_fragments(split_refs, nonapa_min_years,
                                            1, <<>>)
    /\ pc' = "split_done"
    /\ UNCHANGED <<split_family, split_refs>>
    /\ UNCHANGED notSplitVars

SplitNext == ApaPostSplit \/ NonapaPostSplit

SplitSpec == SplitInit /\ [][SplitNext]_vars

(* ------------------------- claims: segmenter -------------------------- *)
\* number of words of the first k lines of buffer B
RECURSIVE PrefixLen(_, _)
PrefixLen(B, k) == IF k = 0 THEN 0 ELSE PrefixLen(B, k - 1) + Len(B[k])

\* the word positions after which buffer B starts a new fragment
Cuts(B) == {PrefixLen(B, k) : k \in 1..Len(B) - 1}

\* the passes after the author-head loop
PastJoin == {"append", "post_split", "doi", "done"}

\* C1: a line that starts with a Prop./SOU government-report marker is never
\* merged into the preceding fragment by any pass: in the written buffer it
\* is the beginning of its own fragment.
C1_GovLineStartsFragment ==
    pc = "done" =>
        \A i \in 2..Len(input) :
            starts_with_prop_or_sou(input[i])
                => PrefixLen(input, i - 1) \in Cuts(written)

C3_AtMostCapPasses == iteration <= MAX_ITER /\ iter2 <= MAX_ITER

\* C3, amended: the author-head loop and the append loop apply their pass at
\* most max(1, cap) times, then stop and hand on a non-empty buffer.
C3_LoopStopsAtCap ==
    /\ iteration <= Max({1, MAX_ITER})
    /\ iter2 <= Max({1, MAX_ITER})
    /\ pc \in PastJoin => (joinExit \in {"fixed", "cap"} /\ Len(final_refs) >= 1)

\* the default cap stopped a loop whose last pass still changed the buffer
C3_Witness ==
    /\ pc = "append" /\ joinExit = "cap"
    /\ MAX_ITER = MAX_ITER_DEFAULT /\ iteration = MAX_ITER
    /\ one_pass_apply(final_refs) # final_refs

\* C4: a line that ends with an ampersand and the line after it, unless that
\* line starts with a government marker, are written as one fragment.
C4_ConjunctionJoined ==
    pc = "done" =>
        \A i \in 1..Len(input) - 1 :
            (line_ends_with_conjunction(input[i])
             /\ ~starts_with_prop_or_sou(input[i + 1]))
                => PrefixLen(input, i) \notin Cuts(written)

(* ------------------------ claims: DOI helpers ------------------------- *)
\* s ends with t
EndsWith(s, t) ==
    Len(t) <= Len(s) /\ SubSeq(s, Len(s) - Len(t) + 1, Len(s)) = t

\* what precedes the appended URLs
BodyBefore(s, t) == SubSeq(s, 1, Len(s) - Len(t))

\* C7: when at least one valid id is recognised in the fragment, the result
\* of move_doi_to_end ends with the canonical URLs of the distinct ids, in
\* encounter order, and no DOI is recognised in the body before them.
C7_DoiRelocated ==
    (pc \in {"doi_moved", "doi_done"} /\ ids # <<>>) =>
        /\ EndsWith(moved, doi_urls(ids, 1))
        /\ extract_doi_ids(BodyBefore(moved, doi_urls(ids, 1))) = <<>>

\* the candidates extract_doi_ids collects in the fragment
FragmentCandidates == candidates(collapse_after_doi_org(fragment, 1))

\* C8: extract_doi_ids returns no id twice, orders the ids by their first
\* occurrence among the candidates, and returns exactly the valid candidates
\* that are no strict substring of another valid candidate.
C8_IdsDedupedOrderedFiltered ==
    pc # "doi_in" =>
        LET cands == FragmentCandidates
            valid == {c \in Range(cands) : is_valid_id(c)}
            first_at(c) == Min({i \in 1..Len(cands) : cands[i] = c})
        IN  /\ \A i, j \in 1..Len(ids) :
                   i < j => (ids[i] # ids[j] /\ first_at(ids[i]) < first_at(ids[j]))
            /\ Range(ids) =
                   {c \in valid : ~\E o \in valid : o # c /\ contains(o, c)}

\* a repeated candidate was dropped and a substring of another id was dropped
C8_Witness ==
    /\ pc = "doi_ids" /\ Len(ids) = 1
    /\ Cardinality({c \in Range(FragmentCandidates) : is_valid_id(c)}) = 2
    /\ Len(FragmentCandidates) > Cardinality(Range(FragmentCandidates))

\* the ids move_doi_to_end appends as URLs
AppendedIds == extract_doi_ids(reattached_text(fragment))

NumberedStyles == {"bracket", "paren", "bare"}

\* the count of a style and the threshold it has to meet
style_count(s) ==
    IF s = "bracket" THEN bracket_count
    ELSE IF s = "paren" THEN paren_count ELSE bare_count

style_min(s) ==
    IF s = "bracket" THEN BRACKET_MIN
    ELSE IF s = "paren" THEN PAREN_MIN
    ELSE IF args_until_eof THEN BARE_MIN_EOF ELSE BARE_MIN

styles_met == {s \in NumberedStyles : style_count(s) >= style_min(s)}

\* the order in which the detection prefers the styles
style_rank(s) == IF s = "bracket" THEN 1 ELSE IF s = "paren" THEN 2 ELSE 3

\* C5 as stated: the selected style is the one with the highest count among
\* the styles that meet their threshold, and no style is selected when no
\* count meets its threshold.
C5_HighestCountSelected ==
    pc = "num_detected" =>
        IF styles_met = {} THEN numbered_style = "none"
        ELSE /\ numbered_style \in styles_met
             /\ \A t \in styles_met :
                    style_count(numbered_style) >= style_count(t)

\* C5, amended: the selected style is the first of bracket, paren, bare whose
\* count meets its threshold (bracket >= 15, paren >= 15, bare >= 10, or
\* bare >= 30 when running to end-of-file), whatever the other counts are,
\* and no style is selected when no count meets its threshold.
C5_FirstStyleInOrderSelected ==
    pc = "num_detected" =>
        IF styles_met = {} THEN numbered_style = "none" /\ num_count = 0
        ELSE /\ numbered_style \in styles_met
             /\ num_count = style_count(numbered_style)
             /\ \A t \in styles_met :
                    style_rank(numbered_style) <= style_rank(t)

\* bracket is selected although more lines are paren-numbered
C5_Witness ==
    /\ pc = "num_detected" /\ numbered_style = "bracket"
    /\ paren_count >= PAREN_MIN /\ paren_count > bracket_count

NumWrittenStates == {"num_written", "num_exit", "num_nonapa"}

\* C6 as stated: with --strip-numbers no line of the output file begins with
\* a numbering prefix of the detected style; without it every fragment that
\* begins with such a prefix is written with it.
C6_NoPrefixLeft ==
    pc \in NumWrittenStates =>
        /\ Len(num_written) = Len(final_numbered)
        /\ \A i \in 1..Len(num_written) :
               IF STRIP_NUMBERS
               THEN ~re_numbered(numbered_style, num_written[i])
               ELSE num_written[i] = final_numbered[i]

\* C6, amended: with --strip-numbers every line of the output file is its
\* fragment without the first numbering prefix of the detected style, when
\* the fragment begins with one; what follows that prefix is kept, a second
\* prefix included.  Without --strip-numbers every fragment is written as
\* it is.
C6_FirstPrefixRemoved ==
    pc \in NumWrittenStates =>
        /\ Len(num_written) = Len(final_numbered)
        /\ \A i \in 1..Len(num_written) :
               IF STRIP_NUMBERS /\ re_numbered(numbered_style, final_numbered[i])
               THEN num_written[i] = Tail(final_numbered[i])
               ELSE num_written[i] = final_numbered[i]

\* prefixes were removed, and a written line still begins with one
C6_Witness ==
    /\ pc = "num_exit" /\ STRIP_NUMBERS
    /\ \E i \in 1..Len(num_written) :
           /\ re_numbered(numbered_style, final_numbered[i])
           /\ ~re_numbered(numbered_style, num_written[i])
    /\ \E i \in 1..Len(num_written) :
           re_numbered(numbered_style, num_written[i])

(* -------------------- claims: load_and_preprocess --------------------- *)
\* C10: when a heading is required and the text has no references heading,
\* the pipeline aborts and produces no lines; the whole text is the section
\* only when the caller did not require a heading.
C10_MissingHeadingAborts ==
    (pc \in {"load_section", "load_done"} /\ ~has_heading(full_text))
        => (use_txt_file /\ references_text = full_text)

(* ------------------------ claims: the whole run ------------------------ *)
\* the script has ended, one way or another
RunTerminal == pc \in {"run_aborted", "run_crashed", "run_exit", "run_end"}

\* the file was written by this run
written_by_run(f) == f.text \notin {"none", "earlier_run"}

\* the output file of the script that is run
output_file == IF script = "doiref.py" THEN artifact ELSE nonapa_artifact

\* the first call of get_full_text raised
initial_extraction_failed == Len(get_calls) >= 1 /\ ~get_calls[1].ok

\* C11: graceful degradation: whichever pass or pattern construction raises,
\* the run still reaches the output emitter; a run ends without having written
\* the output file only when the text extraction failed (a missing heading
\* never ends a run of doiref.py, load_and_preprocess absorbs it).
C11_OutputUnlessExtractionFails ==
    RunTerminal => (written_by_run(output_file) \/ initial_extraction_failed)

\* the numbered detection triggers and the extractor can be switched
backend_switch ==
    /\ script = "doiref.py"
    /\ document.numbered /\ args_extractor = "pdfminer" /\ ~txt_mode

\* C12: in one run of a script the text extraction (get_full_text) is called
\* exactly once, or exactly twice when the numbered-list detection triggers the
\* re-extraction with the other backend; the second call is made at most once,
\* with the other extractor, and after a call that failed no call is made.
C12_ExtractionOnceOrTwice ==
    /\ Len(get_calls) <= 2
    /\ pc # "run_start" => Len(get_calls) >= 1
    /\ Len(get_calls) = 2 =>
          /\ backend_switch
          /\ get_calls[1].ok
          /\ get_calls[1].by = "pdfminer" /\ get_calls[2].by = "pymupdf"
    /\ (RunTerminal /\ backend_switch /\ get_calls[1].ok) => Len(get_calls) = 2
    /\ \A i \in 1..Len(get_calls) : ~get_calls[i].ok => i = Len(get_calls)

\* a run that ended after two calls, the second of which failed
C12_Witness ==
    /\ RunTerminal
    /\ Len(get_calls) = 2
    /\ ~get_calls[2].ok

\* some call of get_full_text raised
some_extraction_failed == \E i \in 1..Len(get_calls) : ~get_calls[i].ok

\* the re-extraction with pymupdf raised
reextraction_failed == Len(get_calls) = 2 /\ ~get_calls[2].ok

\* C13 as stated: every failure of an extraction call, that of the re-extraction
\* included, is fatal: after it the run is over, nothing more is segmented and
\* the output file is not written.
C13_EveryFailureFatal ==
    some_extraction_failed =>
        (pc = "run_aborted" /\ ~written_by_run(artifact))

\* C13 amended: a failure of the first call is fatal (the run is over, no
\* buffer exists, nothing is written); a failure of the re-extraction is
\* absorbed: the run goes on with the lines of the first extraction and, unless
\* a pass raises, writes the output file from them.
C13_InitialFailureFatal ==
    /\ initial_extraction_failed =>
          /\ pc = "run_aborted"
          /\ Len(get_calls) = 1
          /\ run_lines = NoText
          /\ ~written_by_run(artifact)
    /\ reextraction_failed =>
          /\ pc # "run_aborted"
          /\ run_lines.text = get_calls[1].by
          /\ pc \in {"run_exit", "run_end"} =>
                (written_by_run(artifact) /\ artifact.text = get_calls[1].by)

\* a run that wrote its output after the re-extraction had failed
C13_Witness ==
    /\ reextraction_failed
    /\ pc = "run_exit"
    /\ written_by_run(artifact)

\* the backend that was not requested
other_backend == IF args_extractor = "pdfminer" THEN "pymupdf" ELSE "pdfminer"

\* C14 as stated: with a PDF source the run ends with the extraction error only
\* when neither backend can produce the text; when the requested backend fails
\* and the other one would succeed, the text is obtained.
C14_FailsOnlyWhenBothFail ==
    (~txt_mode /\ pc = "run_aborted") =>
        (~backend_ok["pdfminer"] /\ ~backend_ok["pymupdf"])

\* C14 amended: get_full_text uses the requested backend only: with a PDF
\* source the first call is made with args.extractor, and the run ends with the
\* extraction error exactly when that backend fails, whether or not the other
\* backend would have produced the text.
C14_FailsWhenRequestedFails ==
    (~txt_mode /\ pc # "run_start") =>
        /\ get_calls[1].by = args_extractor
        /\ get_calls[1].ok = backend_ok[args_extractor]
        /\ (pc = "run_aborted") = ~backend_ok[args_extractor]

\* the run ended with the extraction error though the other backend works
C14_Witness ==
    /\ ~txt_mode
    /\ pc = "run_aborted"
    /\ backend_ok[other_backend]

\* pass p is among the passes applied to f, q among those applied after it
passed_then(f, p, q) ==
    \E i, j \in 1..Len(f.stages) :
        i < j /\ f.stages[i] = p /\ f.stages[j] = q

\* C15: whenever the output file holds references of this run, they are
\* finalized: they have passed through move_doi_to_end and after that through
\* fix_diaeresis_errors, in the numbered path and in the author-year path.
C15_ArtifactFinalized ==
    written_by_run(artifact) =>
        passed_then(artifact, "move_doi_to_end", "fix_diaeresis_errors")

(* -------------------- claims: hyphen_join_fixed_point ------------------ *)

\* line i of the buffer is followed by another line
followed(buf, i) == i < Len(buf)

\* physical line k of a buffer line was concatenated with the one after it
glued(ln, k) == k < Len(ln)

\* C16: when the joiner has run until nothing changes, every line that
\* ends in a hyphen, soft hyphen, dash or underscore has been concatenated
\* with the line after it, every line that ends in a slash has been
\* concatenated with the line after it unless that line looks like the
\* start of an author heading, and a slash line is never concatenated with
\* an author heading.
C16_SlashJoinedUnlessAuthor ==
    (pc = "hyph_returned" /\ hyph_exit = "unchanged") =>
        /\ \A i \in 1..Len(hyph_returned) :
               followed(hyph_returned, i) =>
                   /\ last_char(hyph_returned[i]) \notin hyphen_chars
                   /\ last_char(hyph_returned[i]) = "slash" =>
                          hyph_author_start(hyph_returned[i + 1])
        /\ \A i \in 1..Len(hyph_returned) :
               \A k \in 1..Len(hyph_returned[i]) :
                   (glued(hyph_returned[i], k)
                        /\ hyph_returned[i][k] = "url/") =>
                       hyph_returned[i][k + 1] # "Author"

\* some line other than the last still ends in a joinable character
join_pending(buf) ==
    \E i \in 1..Len(buf) :
        followed(buf, i) /\ last_char(buf[i]) \in hyphen_chars

\* what holds of every return of the joiner
returned_as_specified ==
    pc = "hyph_returned" =>
        /\ hyph_exit \in {"empty", "unchanged", "cap"}
        /\ hyph_exit = "empty" => hyph_input = <<>> /\ hyph_returned = <<>>
        /\ hyph_exit # "empty" =>
               /\ hyph_iter_n >= 1
               /\ hyph_returned = hyphen_pass(hyph_prev)
        /\ hyph_exit = "cap" => hyph_iter_n >= hyph_max_iter
        /\ hyph_exit = "unchanged" =>
               /\ hyph_returned = hyph_prev
               /\ ~join_pending(hyph_returned)

hyphen_joined_before(f, k) ==
    \E j \in 1..Len(f.stages) :
        /\ j < k
        /\ f.stages[j] = HyphenPass
        /\ \A m \in 1..Len(f.stages) :
               (j < m /\ m < k) => f.stages[m] # "normalize_lines"

\* C18: in every script, whatever buffer or file a segmentation pass has
\* worked on, the pass ran on the buffer hyphen_join_fixed_point produced
\* from the normalized lines: no segmentation pass runs on normalized
\* lines that have not been hyphen-joined.
C18_SegmenterAfterHyphenJoin ==
    \A f \in {run_lines, artifact, stripped, nonapa_lines, nonapa_artifact} :
        \A k \in 1..Len(f.stages) :
            f.stages[k] \in SegmentationPasses => hyphen_joined_before(f, k)

(* ------------------------ claims: the debug store ---------------------- *)

\* C19: for every interleaving of write_debug, debug_path and
\* reset_debug_sequence calls of several threads, _mapping and _counter are
\* read and written only by the thread that holds the lock; between two
\* resets a base name is always given the same canonical name, two
\* different base names never get the same sequence number, and, whenever
\* no thread is inside a locked block, the counter is the number of names
\* allocated since the last reset and every one of them is in the mapping.
C19_DebugStoreSerialized ==
    /\ ~unlocked_access
    /\ \A x \in handed_out : \A y \in handed_out :
           /\ x.base = y.base => x.canonical = y.canonical
           /\ x.base # y.base => x.canonical.seq # y.canonical.seq
    /\ lock_holder = "free" =>
           /\ dbg_counter = allocations
           /\ Cardinality(mapped_names(dbg_mapping)) = allocations
           /\ \A x \in handed_out : dbg_mapping[x.base] = x.canonical

\* two threads allocate different names at the same time: one is inside the
\* locked block, past its increment of the counter, the other waits for the
\* lock, and an earlier name is already allocated
C19_Witness ==
    \E t \in Threads : \E u \in Threads :
        /\ t # u
        /\ lock_holder = t /\ thread_pc[t] = "alloc_store"
        /\ thread_pc[u] = "lock" /\ thread_op[u].fn = "write_debug"
        /\ thread_op[u].base # thread_op[t].base
        /\ dbg_counter = allocations + 1
        /\ allocations >= 1

(* ------------------ claims: independence of the runs ------------------- *)

\* C20: with the debug subsystem disabled, what a run emits depends on its
\* input and configuration only: no file the run writes holds lines an
\* earlier run left in the debug directory, and a run ends in an uncaught
\* exception only when one of its passes raised, never because a call of
\* the debug store failed.
C20_RunIndependentOfEarlierFiles ==
    /\ stripped.text # "earlier_run"
    /\ nonapa_lines.text # "earlier_run"
    /\ nonapa_artifact.text # "earlier_run"
    /\ pc = "run_crashed" => fault # "none"

(* ------------------------ claims: fix_dashed_refs ---------------------- *)

\* the beginning of a line up to and including its first year (the whole
\* line when it holds no year)
up_to_and_including_year(ln) ==
    IF HasTok(ln, DashYearTok)
        THEN SubSeq(ln, 1, Min({k \in 1..Len(ln) : ln[k] \in DashYearTok}))
        ELSE ln

\* the lines before line i that do not start with the placeholder
non_dashed_before(B, i) ==
    {j \in 1..(i - 1) : ~starts_with_placeholder(B[j])}

\* C21: in the result of process_references every line that starts with
\* the placeholder has the placeholder replaced by the beginning, up to and
\* including the year, of the nearest previous line that does not start
\* with the placeholder; a placeholder line that no such line precedes, and
\* every other line, is kept as it is.
C21_PlaceholderReplaced ==
    pc = "dash_done" =>
        /\ Len(dash_result) = Len(dash_input)
        /\ \A i \in 1..Len(dash_input) :
               dash_result[i] =
                   IF /\ starts_with_placeholder(dash_input[i])
                      /\ non_dashed_before(dash_input, i) # {}
                   THEN up_to_and_including_year(
                            dash_input[Max(non_dashed_before(dash_input, i))])
                        \o SubSeq(dash_input[i], 2, Len(dash_input[i]))
                   ELSE dash_input[i]

(* ------------------- claims: content-less numbered lines -------------- *)
\* a line that is a numbering prefix of the active style and nothing else
is_stub(style, ln) == re_numbered(style, ln) /\ Tail(ln) = <<>>

\* the input lines at which the fragments of out start, out being the input
\* lines joined in their order: line i opens fragment k when no word of the
\* fragment has been used yet
RECURSIVE line_starts(_, _, _, _, _)
line_starts(in_lines, out, i, k, used) ==
    IF i > Len(in_lines) \/ k > Len(out) THEN {}
    ELSE IF used >= Len(out[k])
         THEN line_starts(in_lines, out, i, k + 1, 0)
         ELSE (IF used = 0 THEN {i} ELSE {})
              \cup line_starts(in_lines, out, i + 1, k,
                               used + Len(in_lines[i]))

\* the input line at which the fragment holding input line k starts
fragment_start(starts, k) ==
    CHOOSE j \in starts : j <= k /\ \A m \in starts : m <= k => m <= j

\* the content-less numbered lines that follow a fragment started by a
\* numbered line
stubs_after_numbered(in_lines, starts, style) ==
    {i \in 2..Len(in_lines) :
        /\ is_stub(style, in_lines[i])
        /\ re_numbered(style, in_lines[fragment_start(starts, i - 1)])}

\* the number of the line that started the fragment before input line i
start_number(in_lines, starts, i) ==
    in_lines[fragment_start(starts, i - 1)][1][2]

\* the words of a content-less numbered line that a buffer holds
holds_word(B, word) ==
    \E k \in 1..Len(B) : \E w \in 1..Len(B[k]) : B[k][w] = word

\* a buffer holds word as the last of several words of a fragment
holds_joined(B, word) ==
    \E k \in 1..Len(B) : Len(B[k]) >= 2 /\ Last(B[k]) = word

\* C22 as stated: in the numbered path a line that matches the numbering
\* pattern, carries no content after it and whose number is exactly one
\* greater than the number of the previous START is a continuation, and its
\* number does not appear in the output.
C22_NextNumberStubContinues ==
    pc = "num_joined" =>
        LET starts == line_starts(prev_num, final_numbered, 1, 1, 0)
        IN  \A i \in stubs_after_numbered(prev_num, starts, numbered_style) :
                prev_num[i][1][2] = start_number(prev_num, starts, i) + 1
                => /\ i \notin starts
                   /\ ~holds_word(final_numbered, prev_num[i][1])

\* C22, amended: in a pass of the numbered path a line that matches the
\* numbering pattern and carries no content after it starts a new fragment
\* when its number is exactly one greater than the number of the previous
\* START, and is joined to the previous fragment when it carries any other
\* number; in both cases its number stays in the output, every word of the
\* input being kept in its order.
C22_OtherNumberStubContinues ==
    pc = "num_joined" =>
        LET starts == line_starts(prev_num, final_numbered, 1, 1, 0)
        IN  /\ Flat(final_numbered) = Flat(prev_num)
            /\ \A i \in stubs_after_numbered(prev_num, starts,
                                             numbered_style) :
                   i \in starts
                   <=> prev_num[i][1][2]
                           = start_number(prev_num, starts, i) + 1

\* one pass met a stub with the next number, which starts a fragment, and a
\* stub with another number, which was joined with its number
C22_Witness ==
    /\ pc = "num_joined"
    /\ LET starts == line_starts(prev_num, final_numbered, 1, 1, 0)
       IN  \E i, j \in stubs_after_numbered(prev_num, starts,
                                            numbered_style) :
               /\ i \in starts
               /\ j \notin starts
               /\ holds_joined(final_numbered, prev_num[j][1])

(* ----------------------- claims: rule precedence ---------------------- *)
\* the entries of the buffer left by the editor step that its second step
\* kept as a START: the entry before ends with an editor token, and the
\* entry has no parenthesized year and matches the author pattern
kept_by_editor_rule(B) ==
    {k \in 2..Len(B) :
        /\ ~YEAR_PAREN(B[k])
        /\ prev_has_editor(B[k - 1])
        /\ ~starts_with_prop_or_sou(B[k])
        /\ author_start_like(B[k])}

\* C23 as stated: a line that the editor-anchoring rule kept as a START
\* because it matches the author pattern is merged into the preceding
\* fragment by no later pass: it starts a fragment after the author-head
\* loop and after the append-nonyear loop.
C23_EarlierStartKept ==
    /\ pc \in PastJoin =>
           \A k \in kept_by_editor_rule(lines) :
               PrefixLen(lines, k - 1) \in Cuts(final_refs)
    /\ pc = "post_split" =>
           \A k \in kept_by_editor_rule(lines) :
               PrefixLen(lines, k - 1) \in Cuts(final_refs2)

(* ------------------- claims: the append-nonyear loop ------------------ *)
\* C24: after the append-nonyear loop has returned, every fragment of the
\* buffer but the first holds a parenthesized year or starts with a
\* government marker, and one more application of the pass to that buffer
\* changes nothing.
C24_DefaultJoinPostCondition ==
    pc = "post_split" =>
        /\ \A k \in 2..Len(final_refs2) :
               \/ YEAR_PAREN(final_refs2[k])
               \/ starts_with_prop_or_sou(final_refs2[k])
        /\ append_nonyear_pass(final_refs2) = final_refs2

\* the loop merged a fragment into the first one and left a later fragment
\* that has no parenthesized year and is kept by its government marker
C24_Witness ==
    /\ pc = "post_split"
    /\ Len(final_refs2) < Len(final_refs)
    /\ \E k \in 2..Len(final_refs2) :
           /\ ~YEAR_PAREN(final_refs2[k])
           /\ starts_with_prop_or_sou(final_refs2[k])

(* -------------------- claims: the single-token pass ------------------- *)
\* tokens that hold one of the characters ( ) [ ] / :
BracketLikeTok == {"(2020)", "2020:11", "SOU:2020:11", "(Eds.)", "thesis]."}

\* a line without internal whitespace that holds a digit or a bracket-like
\* character
digit_or_bracket_token(ln) ==
    Len(ln) = 1 /\ ln[1] \in DigitTok \cup BracketLikeTok

BareYearEndTok == {"2020."}

\* the line ends with a parenthesized year or with a bare year
ends_with_any_year(l) ==
    Len(l) >= 1 /\ Last(l) \in ParenYearTok \cup BareYearEndTok

\* the lines of buffer B that the pre-append pass reads as a possible head:
\* a line is not read when the pass has appended it to the line before
RECURSIVE pre_append_heads(_, _)
pre_append_heads(B, i) ==
    IF i > Len(B) THEN {}
    ELSE IF /\ Last(B[i]) \in ParenYearTok /\ i + 1 <= Len(B)
            /\ ~starts_with_prop_or_sou(B[i + 1])
         THEN {i} \cup pre_append_heads(B, i + 2)
         ELSE {i} \cup pre_append_heads(B, i + 1)

\* C26 as stated: in the pre-append pass, whenever a line ends with a
\* parenthesized year or with a bare year, the following line is merged into
\* it, unless that following line starts with a government marker, in which
\* case both stay separate.
C26_AnyYearEndTakesNext ==
    [][pc = "year_end" =>
          \A k \in 1..(Len(lines) - 1) :
              ends_with_any_year(lines[k])
              => (PrefixLen(lines, k) \in Cuts(lines')
                      <=> starts_with_prop_or_sou(lines[k + 1]))]_vars

\* C26, amended: in the pre-append pass of the author-year path, whenever a
\* line that the pass has not itself appended to the line before ends with
\* a parenthesized year, the following line is merged into it, unless that
\* following line starts with a government marker, in which case both stay
\* separate; a line that ends with a bare year, or with no year, takes
\* nothing, and neither does a line that the pass has just appended.
C26_ParenYearEndTakesNext ==
    [][pc = "year_end" =>
          \A k \in 1..(Len(lines) - 1) :
              PrefixLen(lines, k) \notin Cuts(lines')
              <=> /\ k \in pre_append_heads(lines, 1)
                  /\ Last(lines[k]) \in ParenYearTok
                  /\ ~starts_with_prop_or_sou(lines[k + 1])]_vars


\* the pass has run on a buffer in which a line ending with a parenthesized
\* year took the line after it, a line ending with a bare year, and that
\* line took nothing: the line after it still starts a fragment
C26_Witness ==
    /\ pc = "single_token"
    /\ \E j \in 1..(Len(input) - 2) :
           /\ Last(input[j]) \in ParenYearTok
           /\ Last(input[j + 1]) \in BareYearEndTok
           /\ ~starts_with_paren_or_year(input[j + 1])
           /\ ~starts_with_paren_or_year(input[j + 2])
           /\ ~starts_with_prop_or_sou(input[j + 2])
           /\ PrefixLen(input, j) \notin Cuts(lines)
           /\ PrefixLen(input, j + 1) \in Cuts(lines)

(* --------------------- claims: the ampersand pass --------------------- *)
\* the words that end a wrapped author list: 'and' and its local equivalent
ConjunctionWordTok == {"and"}

\* the lines of buffer B that the ampersand pass reads as a possible head, a
\* line that the pass appended to the line before it not being read
RECURSIVE amp_heads(_, _)
amp_heads(B, i) ==
    IF i > Len(B) THEN {}
    ELSE IF /\ Last(B[i]) \in AmpEndTok /\ i + 1 <= Len(B)
            /\ ~starts_with_prop_or_sou(B[i + 1])
         THEN {i} \cup amp_heads(B, i + 2)
         ELSE {i} \cup amp_heads(B, i + 1)

\* C27 as stated: in the ampersand pass a fragment whose last token is the
\* word "and" (or "och") takes the following line exactly as a fragment
\* with a trailing ampersand does, unless the following line starts with a
\* government marker.
C27_TrailingWordTakesNext ==
    [][pc = "ampersand" =>
          \A k \in amp_heads(lines, 1) :
              /\ k < Len(lines)
              /\ Last(lines[k]) \in ConjunctionWordTok \cup AmpEndTok
              /\ ~starts_with_prop_or_sou(lines[k + 1])
              => PrefixLen(lines, k) \notin Cuts(lines')]_vars

(* ------------------------ claims: the editor loop --------------------- *)
\* the first parenthetical of the line is an editor token
first_paren_is_editor(l) == FirstParen(l) > 0 /\ l[FirstParen(l)] \in EditorTok

\* a run of lines that ends just before line k, joined, ends with an editor
\* token
follows_editor_token(B, k) ==
    \E j \in 1..(k - 1) : prev_has_editor(Flat(SubSeq(B, j, k - 1)))

\* line k of the buffer before a round is not a fragment start after it
merged_in_round(k) == PrefixLen(lines, k - 1) \notin Cuts(lines')

\* C28 as stated: a round of the editor loop merges a line into the previous
\* fragment only when the sole content of the line is an editor-token
\* parenthetical and the line has no year; the loop performs at most
\* max_editor_iter rounds and stops as soon as no line without a year still
\* holds an editor-token parenthetical.
C28_OnlySoleEditorTokenMerged ==
    [][pc = "editor" =>
          /\ \A k \in 2..Len(lines) :
                 merged_in_round(k)
                 => /\ Len(lines[k]) = 1
                    /\ lines[k][1] \in EditorTok
                    /\ ~YEAR_PAREN(lines[k])
          /\ iter_e' <= max_editor_iter
          /\ pc' = "editor" => has_unresolved_editor_token(lines')]_vars

\* C28, amended: a round of the editor loop merges a line into the previous
\* fragment only when the line has no parenthesized year, does not start
\* with a government marker, and either its first parenthetical is an editor
\* token, whatever else the line holds, or it does not match the author
\* pattern and follows a fragment that ends with an editor token; every line
\* after the first of the first kind is merged.  The loop performs at most
\* max_editor_iter rounds and stops as soon as no line without a
\* parenthesized year still holds an editor-token parenthetical.
C28_EditorRuleMerges ==
    [][pc = "editor" =>
          /\ \A k \in 2..Len(lines) :
                 merged_in_round(k)
                 => /\ ~YEAR_PAREN(lines[k])
                    /\ ~starts_with_prop_or_sou(lines[k])
                    /\ \/ first_paren_is_editor(lines[k])
                       \/ /\ ~author_start_like(lines[k])
                          /\ follows_editor_token(lines, k)
          /\ \A k \in 2..Len(lines) :
                 /\ ~YEAR_PAREN(lines[k])
                 /\ ~starts_with_prop_or_sou(lines[k])
                 /\ first_paren_is_editor(lines[k])
                 => merged_in_round(k)
          /\ iter_e' = iter_e + 1
          /\ iter_e' <= max_editor_iter
          /\ pc' = "editor"
             => has_unresolved_editor_token(lines') /\ iter_e' < max_editor_iter
          /\ pc' = "join"
             => \/ ~has_unresolved_editor_token(lines')
                \/ iter_e' = max_editor_iter]_vars

\* the loop has stopped at its cap, and a fragment without a year holds an
\* editor token followed by the words of a line merged after it
C28_Witness ==
    /\ pc = "join"
    /\ iter_e = max_editor_iter
    /\ \E k \in 1..Len(lines) :
           /\ ~YEAR_PAREN(lines[k])
           /\ \E q \in 1..(Len(lines[k]) - 1) : lines[k][q] \in EditorTok

(* ------------------------ claims: trailer split ----------------------- *)
\* the fragment has the shape text, "].", author head: some text follows its
\* last "]." and starts like an author
has_trailer_shape(ref) ==
    /\ split_point(ref) > 0
    /\ author_start_like(SubSeq(ref, split_point(ref) + 1, Len(ref)))

\* the fragments of split_refs that were cut in two
split_fragments ==
    {i \in 1..Len(split_refs) :
        \E c \in Cuts(split_out) :
            /\ c > PrefixLen(split_refs, i - 1)
            /\ c < PrefixLen(split_refs, i)}

\* the cuts of the output: those of the input and, in each fragment of the
\* set S, one after its last "]."
cuts_with_splits(S) ==
    Cuts(split_refs)
        \cup {PrefixLen(split_refs, i - 1) + split_point(split_refs[i]) :
                 i \in S}

\* C29 as stated: in both style families a fragment is split only if it
\* holds at least two parenthesized years and has the trailer shape; it is
\* split in exactly two fragments that joined give the fragment back, and
\* every other fragment is left unchanged.
C29_SplitNeedsTwoYears ==
    pc = "split_done" =>
        /\ Flat(split_out) = Flat(split_refs)
        /\ \A i \in split_fragments :
               /\ CountTok(split_refs[i], ParenYearTok) >= min_years
               /\ has_trailer_shape(split_refs[i])
        /\ Cuts(split_out) = cuts_with_splits(split_fragments)

\* C29, amended: a fragment is split exactly when it has the trailer shape
\* and holds at least the number of parenthesized years its script asks
\* for: two in doiref.py, none in doiref_nonapa.py; it is split in exactly
\* two fragments, after its last "]." followed by text, that joined give
\* the fragment back, and every other fragment is left unchanged.
C29_SplitNeedsFamilyYears ==
    pc = "split_done" =>
        /\ Flat(split_out) = Flat(split_refs)
        /\ split_fragments =
               {i \in 1..Len(split_refs) :
                   /\ has_trailer_shape(split_refs[i])
                   /\ CountTok(split_refs[i], ParenYearTok)
                          >= (IF split_family = "doiref.py" THEN 2 ELSE 0)}
        /\ Cuts(split_out) = cuts_with_splits(split_fragments)
        /\ Len(split_out) = Len(split_refs) + Cardinality(split_fragments)

\* doiref_nonapa.py has split a fragment that holds no parenthesized year
\* and left another fragment whole
C29_Witness ==
    /\ pc = "split_done"
    /\ split_family = "doiref_nonapa.py"
    /\ \E i \in split_fragments :
           CountTok(split_refs[i], ParenYearTok) = 0
    /\ \E i \in 1..Len(split_refs) : i \notin split_fragments

(* ------------------------- claims: stop tokens ------------------------ *)
\* a stop token verbatim or with one trailing period
StopTokenLine == {"stop", "stop."}

\* the lines the loop of the loader skips: blank lines and page numbers
SkippedLine == {"blank", "page"}

\* the lines of the section up to line p that the loader keeps
kept_lines(p) ==
    SelectSeq(SubSeq(references_text, 1, p), LAMBDA k : k \notin SkippedLine)

\* the lines of the section that are a stop token
stop_token_lines ==
    {i \in 1..Len(references_text) : references_text[i] \in StopTokenLine}

\* C30: when run-to-end-of-file is not set, the buffer of the loader holds
\* lines of the section before the first line that is a stop token, verbatim
\* or with one trailing period, and nothing else: not that line and no line
\* after it; when run-to-end-of-file is set, the stop tokens do not truncate
\* the buffer, which holds every line of the section that is not skipped.
C30_StopTokenTruncates ==
    pc = "load_done" =>
        IF until_eof
        THEN norm_lines = kept_lines(Len(references_text))
        ELSE \E p \in 0..Len(references_text) :
                 /\ \A i \in stop_token_lines : p < i
                 /\ norm_lines = kept_lines(p)

\* the loader has cut the section at a stop token with a trailing period,
\* with reference lines before it and after it
C30_Witness ==
    /\ pc = "load_done"
    /\ ~until_eof
    /\ \E i \in stop_token_lines :
           /\ references_text[i] = "stop."
           /\ \A j \in stop_token_lines : i <= j
           /\ norm_lines = kept_lines(i - 1)
           /\ \E j \in 1..(i - 1) : references_text[j] = "ref"
           /\ \E j \in (i + 1)..Len(references_text) :
                  references_text[j] = "ref"

(* ---- C31: where the extracted section starts ---- *)
\* no backward context is requested: pymupdf_context_chars is None
no_backward_context == extractor # "pymupdf"

\* the lines of the text after the heading line that was matched
after_heading(text) == SubSeq(text, match_line(text) + 1, Len(text))

\* the lines of the text from the matched heading line on
from_heading(text) == SubSeq(text, match_line(text), Len(text))

\* C31: when a heading is found and no backward context is requested, the
\* section extract_references_section returns starts after the heading: it
\* is a suffix of the lines that follow the heading line, so the heading
\* line is no part of it, whether or not a blank line follows the heading.
\* (parsing_helpers.py 1609-1610 move start_idx back to the beginning of the
\* line match.end() lies in, which is the heading line unless a blank line
\* follows: TLC finds the section starting with the heading line.)
C31_SectionAfterHeading ==
    (pc = "load_extracted" /\ ~raised /\ has_heading(full_text)
        /\ no_backward_context)
    => /\ Len(references_text) <= Len(after_heading(full_text))
       /\ references_text # from_heading(full_text)


(* ------------- the Type-A joiner of doiref_nonapa.py ------------------ *)
\* A physical line is a sequence of tokens; `current` and each reference are
\* kept as the sequence of the physical lines they were joined from, so the
\* string of the code is Flat of it.

\* tokens in which year_found accepts a year
AcceptedYearTok == {"2020."}

\* tokens holding a year next to a hyphen, which year_found ignores
HyphenYearTok == {"2001-2020"}

TypeAPool == {<<"Smith">>, <<"Title", "2020.">>, <<"pp.", "2001-2020">>}

\* most physical lines of a buffer handed to the joiner
MaxTypeALines == 4

\* default of --max-append
MAX_APPEND_DEFAULT == 25

\* values of --max-append: argparse takes any integer
MaxAppendChoices == {-1, 0, 1, 2, MAX_APPEND_DEFAULT}

TypeABuffers == UNION {[1..n -> TypeAPool] : n \in 0..MaxTypeALines}

\* doiref_nonapa.py 302-325 on the tokens of s
year_found(s) == HasTok(s, AcceptedYearTok)

\* the safeguard with the bound itself allowed
below_max_append_inclusive(st, cap) == st <= cap

\* doiref_nonapa.py 979: steps < MAX_APPEND_STEPS
below_max_append(st, cap) == st < cap

\* the condition of the inner while loop
may_append ==
    /\ ~year_found(Flat(current))
    /\ ta_i <= Len(ta_lines)
    /\ below_max_append(steps, MAX_APPEND_STEPS)

\* the state before the loop: references = [], i = 0
TypeAInit ==
    /\ pc = "ta_outer"
    /\ ta_lines \in TypeABuffers
    /\ MAX_APPEND_STEPS \in MaxAppendChoices
    /\ ta_i = 1
    /\ current = <<>>
    /\ steps = 0
    /\ references = <<>>
    /\ NotTypeAIdle

\* `while i < n`: a candidate reference starts at the current line
StartReference ==
    /\ pc = "ta_outer"
    /\ ta_i <= Len(ta_lines)
    /\ current' = <<ta_lines[ta_i]>>
    /\ ta_i' = ta_i + 1
    /\ steps' = 0
    /\ pc' = "ta_inner"
    /\ UNCHANGED <<ta_lines, MAX_APPEND_STEPS, references>>
    /\ UNCHANGED notTypeAVars

\* one turn of the inner loop: the next physical line is appended
AppendNextLine ==
    /\ pc = "ta_inner"
    /\ may_append
    /\ current' = Append(current, ta_lines[ta_i])
    /\ ta_i' = ta_i + 1
    /\ steps' = steps + 1
    /\ UNCHANGED <<pc, ta_lines, MAX_APPEND_STEPS, references>>
    /\ UNCHANGED notTypeAVars

\* the inner loop is left: references.append(current.strip())
FinalizeReference ==
    /\ pc = "ta_inner"
    /\ ~may_append
    /\ references' = Append(references, current)
    /\ pc' = "ta_outer"
    /\ UNCHANGED <<ta_lines, MAX_APPEND_STEPS, ta_i, current, steps>>
    /\ UNCHANGED notTypeAVars

\* i = n: the outer loop is left
JoinerDone ==
    /\ pc = "ta_outer"
    /\ ta_i > Len(ta_lines)
    /\ pc' = "ta_done"
    /\ UNCHANGED typeAVars
    /\ UNCHANGED notTypeAVars

TypeANext ==
    \/ StartReference
    \/ AppendNextLine
    \/ FinalizeReference
    \/ JoinerDone

TypeASpec == TypeAInit /\ [][TypeANext]_vars

\* the loop is one sequential computation: it keeps taking steps
TypeAFairSpec == TypeASpec /\ WF_vars(TypeANext)

(* ---- C37: the Type-A joiner ---- *)
\* the physical lines of the references k .. end
RECURSIVE lines_of_references(_, _)
lines_of_references(refs, k) ==
    IF k > Len(refs) THEN <<>>
    ELSE refs[k] \o lines_of_references(refs, k + 1)

\* reference k ends before the end of the buffer
ends_before_end(k) ==
    Len(ta_lines) > Len(lines_of_references(references, 1))
                        - Len(lines_of_references(references, k + 1))

holds_accepted_year(ref) ==
    \E j \in 1..Len(ref) : \E t \in 1..Len(ref[j]) : ref[j][t] \in AcceptedYearTok

\* every line is in exactly one reference, in order, and a reference
\* appends at most `most` lines
joiner_post(most) ==
    /\ pc = "ta_done" => lines_of_references(references, 1) = ta_lines
    /\ \A k \in 1..Len(references) :
          /\ Len(references[k]) >= 1
          /\ Len(references[k]) - 1 <= most
          /\ ends_before_end(k) =>
                \/ holds_accepted_year(references[k])
                \/ Len(references[k]) = most + 1

\* C37 as stated: the loop terminates for every buffer; every physical line
\* ends up in exactly one reference, in order; a reference appends at most
\* max_append following lines, so a reference that ends before the end of
\* the buffer holds an acceptable year or consists of exactly
\* max_append + 1 lines.  (With a negative --max-append a reference without
\* a year is one line, which is more than max_append + 1.)
C37_AppendsAtMostMaxAppend ==
    /\ [](joiner_post(MAX_APPEND_STEPS))
    /\ <>(pc = "ta_done")

\* C37 amended: the same with "at most max(max_append, 0) following lines"
\* and "exactly max(max_append, 0) + 1 lines"
C37_AppendsAtMostNonNegativeMaxAppend ==
    /\ [](joiner_post(Max({MAX_APPEND_STEPS, 0})))
    /\ <>(pc = "ta_done")

\* the joiner has returned; one reference without a year was cut by the
\* safeguard after max_append appended lines and another one ends with the
\* line in which the year was found
C37_Witness ==
    /\ pc = "ta_done"
    /\ MAX_APPEND_STEPS >= 1
    /\ \E k \in 1..Len(references) :
          /\ ends_before_end(k)
          /\ ~holds_accepted_year(references[k])
          /\ Len(references[k]) = MAX_APPEND_STEPS + 1
    /\ \E k \in 1..Len(references) :
          /\ Len(references[k]) >= 2
          /\ holds_accepted_year(references[k])

(* ---- C34: the style that drives the numbered pass ---- *)
\* no count of the buffer reaches the threshold of its style
meets_no_threshold(doc, eof) ==
    /\ count_style("bracket", doc) < BRACKET_MIN
    /\ count_style("paren", doc) < PAREN_MIN
    /\ count_style("bare", doc) < bare_threshold(eof)

\* C34: in the numbered pass and in the prefix strip the style and the count
\* are the ones of the buffer that is processed, also after a re-extraction:
\* a style other than "none" has the count of its lines in count_lines, and
\* when count_lines meets no threshold no style is applied to it.
\* (doiref.py 438-453: the detection after the re-extraction has no final
\* else, so the style, pattern and count of the first extraction stay.)
C34_StyleDetectedOnCurrentBuffer ==
    pc \in {"num_pass", "num_joined", "num_written"}
    => /\ numbered_style # "none"
            => num_count = count_style(numbered_style, count_lines)
       /\ meets_no_threshold(count_lines, args_until_eof)
            => numbered_style = "none"

(* ---- C35, C36: move_doi_to_end applied again, and without a DOI ---- *)
\* C35: move_doi_to_end is idempotent: the second application of
\* doiref.py 1279-1280 returns what the first returned.
C35_MoveDoiIdempotent ==
    pc = "doi_done" => moved2 = moved

\* C36: when move_doi_to_end recognises no valid DOI id in the fragment, it
\* returns the fragment as it was given, character for character.
C36_NoDoiUnchanged ==
    (pc = "doi_moved" /\ extract_doi_ids(reattached_text(fragment)) = <<>>)
    => moved = fragment

(* --------------- the page-range hints of doireg.py -------------------- *)
\* largest extent of a record
MaxExtent == 900

\* doireg.py 130-134: the smallest page number handed over
PAGE_MIN == 30

\* doireg.py 130: the largest page number handed over
PAGE_MAX == 800

\* doireg.py 131, 134: min_page lies this far below the extent
PAGE_WINDOW == 50

\* the extent with the lower bound alone
clamp_extent_from_below(extent) == Max({PAGE_MIN, extent})

\* doireg.py 130: max(30, min(extent_val, 800))
clamp_extent(extent) == Max({PAGE_MIN, Min({extent, PAGE_MAX})})

\* doireg.py 131-134
min_page_of(extent, maxp) ==
    LET first == Max({PAGE_MIN, extent - PAGE_WINDOW})
    IN  IF first > maxp THEN Max({PAGE_MIN, maxp - PAGE_WINDOW}) ELSE first

\* the state after the record was read: the first <extent> element made of
\* digits alone, or None
PageInit ==
    /\ pc = "page_extent"
    /\ extent_val \in -1..MaxExtent
    /\ min_page = -1
    /\ max_page = -1
    /\ NotPageIdle

\* `if extent_val is not None`: the two options are added to cmd
DerivePageRange ==
    /\ pc = "page_extent"
    /\ extent_val # -1
    /\ max_page' = clamp_extent(extent_val)
    /\ min_page' = min_page_of(extent_val, max_page')
    /\ pc' = "page_cmd"
    /\ UNCHANGED extent_val
    /\ UNCHANGED notPageVars

\* no numeric extent: cmd is run without the two options
NoPageRange ==
    /\ pc = "page_extent"
    /\ extent_val = -1
    /\ pc' = "page_cmd"
    /\ UNCHANGED pageVars
    /\ UNCHANGED notPageVars

PageNext ==
    \/ DerivePageRange
    \/ NoPageRange

PageSpec == PageInit /\ [][PageNext]_vars

(* ---- C38: the page range derived from the extent ---- *)
\* C38: for every non-negative extent the values handed to the pipeline
\* satisfy 30 <= min-page-number <= max-page-number <= 800, and
\* max-page-number is the extent clamped to [30, 800].
C38_PageRangeWithinBounds ==
    (pc = "page_cmd" /\ extent_val >= 0)
    => /\ 30 <= min_page
       /\ min_page <= max_page
       /\ max_page <= 800
       /\ max_page = IF extent_val < 30 THEN 30
                     ELSE IF extent_val > 800 THEN 800
                     ELSE extent_val

\* an extent above 850: the first min_page lies above max_page and is
\* computed again from max_page
C38_Witness ==
    /\ pc = "page_cmd"
    /\ extent_val > 850
    /\ max_page = 800
    /\ min_page = 750

(* ------------- the merge passes of both scripts, together ------------- *)
\* the segmenter of doiref.py, its numbered path and the Type-A joiner of
\* doiref_nonapa.py: a run is a run of one of the three
MergeInit == SegInit \/ NumInit \/ TypeAInit

MergeNext == SegNext \/ NumNext \/ TypeANext

MergeSpec == MergeInit /\ [][MergeNext]_vars

(* ---- C32: the merge passes keep the content ---- *)
\* the buffer holds the tokens of `source` in order, or is not yet set
same_tokens(buffer, source) == buffer = <<>> \/ Flat(buffer) = Flat(source)

\* C32: across the merge passes of the segmenter (leading-year merge,
\* pre-append, single-token, conjunction, editor, author-head, default
\* join), the numbered pass and the Type-A joiner no input line is dropped,
\* duplicated or reordered: the fragments of the buffer, read in order,
\* give the token sequence of the input lines read in order.
C32_TokensPreserved ==
    /\ Flat(lines) = Flat(input)
    /\ same_tokens(prev, input)
    /\ same_tokens(final_refs, input)
    /\ pc = "post_split" => Flat(final_refs2) = Flat(input)
    /\ pc \in {"num_pass", "num_joined", "num_written"}
          => Flat(prev_num) = Flat(count_lines)
    /\ same_tokens(final_numbered, count_lines)
    /\ Flat(current) \in {<<>>} \cup
          {Flat(SubSeq(ta_lines, a, ta_i - 1)) : a \in 1..Len(ta_lines)}
    /\ pc \in {"ta_outer", "ta_done"}
          => Flat(Flat(references)) = Flat(SubSeq(ta_lines, 1, ta_i - 1))

\* every loop of the segmenter is done and an author head has taken the
\* line that follows it
C32_Witness ==
    /\ pc = "post_split"
    /\ Len(input) = 3
    /\ Len(final_refs) < Len(lines)
    /\ Flat(final_refs2) = Flat(input)

(* ---- C33: the two fixed-point loops converge by shrinking ---- *)
\* what a turn of the numbered loop returned: the next input, or the result
numbered_turn_result == IF pc' = "num_pass" THEN prev_num' ELSE final_numbered'

\* C33: in the author-head join loop and in the numbered-pass loop a pass
\* that returns a buffer different from its input returns a buffer with
\* fewer fragments (the lines of the model are trimmed, so this holds for
\* the first pass too); the loop over a buffer of N lines makes at most
\* N + 1 passes, it reports a fixed point only when the last pass changed
\* nothing, and it is left through the cap only when N exceeds the cap.
C33_LoopsConvergeByShrinking ==
    [][ /\ pc = "join" =>
              /\ prev' # prev => Len(prev') < Len(prev)
              /\ iteration' <= Len(lines) + 1
              /\ joinExit' = "fixed" => prev' = prev
              /\ joinExit' = "cap" => Len(lines) > MAX_ITER
        /\ pc = "num_pass" =>
              /\ numbered_turn_result # prev_num
                    => Len(numbered_turn_result) < Len(prev_num)
              /\ iter_num' <= Len(count_lines) + 1
              /\ (pc' = "num_joined" /\ final_numbered' # prev_num)
                    => Len(count_lines) > local_max_iter
      ]_vars

\* the author-head loop was left through the default cap: every one of its
\* passes shortened the buffer
C33_Witness ==
    /\ pc = "append"
    /\ joinExit = "cap"
    /\ MAX_ITER = MAX_ITER_DEFAULT
    /\ iteration = MAX_ITER_DEFAULT
    /\ Len(final_refs) <= Len(lines) - MAX_ITER_DEFAULT

\* the numbered loop was left through its cap after a pass that joined lines
C33_NumberedWitness ==
    /\ pc = "num_joined"
    /\ iter_num = local_max_iter
    /\ Len(final_numbered) < Len(prev_num)

====
